---- MODULE Spec2Model ----
(***************************************************************************)
(* Terrain explorer core (src/src/core.py): the Terrain height field, the  *)
(* Player locomotion controller and the Tsin.update frame loop.            *)
(*                                                                         *)
(* Fixed-point units (Python floats are modelled as scaled integers):      *)
(*   horizontal length  XU = 2 mm      (1.0 m = 500 XU, 0.01 m = 5 XU)     *)
(*   vertical length    YU = 1e-8 m    (1.0 m = 100000000 YU)              *)
(*   velocity           VU = 1e-5 m/s  (VU * ms = YU)                      *)
(*   time               ms                                                 *)
(*   block size         tenths of a metre (1.0 = 10)                       *)
(*   noise value        1e-4           (times HEIGHT_SCALE = 2.5 mm)       *)
(***************************************************************************)
EXTENDS Integers, Sequences, FiniteSets, TLC

VARIABLES
    terrain,        \* Terrain object: vertices, generated_area, block_size, smooth, erosion_cache
    player,         \* Player object (fields as in Player.__init__)
    ui_state,       \* UI.state: "title" | "game" | "pause"
    SMOOTH_TERRAIN, \* module global toggled by F6
    TERRAIN_DETAIL, \* module global changed by +/- (tenths)
    SEED,           \* module global, random.randint at import
    world,          \* which noise function the noise library computes
    pc,             \* position inside Tsin.update / Player.update_movement
    keys,           \* pressed keys of the current frame
    dt,             \* frame time of the current frame (ms)
    mouse_rel,      \* mouse motion of the current frame
    frames,         \* number of frames started
    call,           \* last Terrain API call made by the session shell
    ret,            \* value returned by that call
    ncalls          \* number of API calls made

vars == <<terrain, player, ui_state, SMOOTH_TERRAIN, TERRAIN_DETAIL, SEED, world,
          pc, keys, dt, mouse_rel, frames, call, ret, ncalls>>

----------------------------------------------------------------------------
(* Unit conversion: one noise unit (1e-4) in YU *)

NoiseToYU == 10000

(* System configuration, src/src/core.py:14-58, in model units *)

HEIGHT_SCALE == 25

PLAYER_SPEED == 4500

GRAVITY == 980

JUMP_FORCE == 600000

PLAYER_HEIGHT == 180000000

CROUCH_HEIGHT == 117000000

MAX_JUMP_HEIGHT == 120000000

STEP_HEIGHT == 50000000

TERRAIN_BLOCK_SIZE == 10

NORMAL_MODE == 0

FLIGHT_MODE == 1

FREE_FLIGHT_MODE == 2

BASE_LIFT == 500000

MAX_LIFT == 1500000

LIFT_INCREMENT == 100000

HOVER_LIFT == 980000

FLIGHT_SPEED_MULTIPLIER == 2

flight_cooldown == 500

(* Bounds of the model *)

LOAD_RADIUS == 1

MaxFrames == 3

MaxCalls == 3

\* controller commands applied in one run of the command interface
MaxCmds == 6

\* frames of one session of python/core.py
MaxPyFrames == 3

\* most input events the engine of python/Tsin/core.py finds queued in one frame
MaxEvents == 2

----------------------------------------------------------------------------
(* Arithmetic helpers *)

Abs(a) == IF a >= 0 THEN a ELSE -a

\* Python int(a / b) for b > 0: truncation toward zero
Trunc(a, b) == IF a >= 0 THEN a \div b ELSE -((-a) \div b)

\* Python round(x, 2) of a horizontal coordinate: XU -> centimetres.
\* XU = 2 mm, so no coordinate lies exactly half way between two centimetres.
Round2(x) == IF x >= 0 THEN (x + 2) \div 5 ELSE -((2 - x) \div 5)

Put(f, k, v) == [a \in DOMAIN f \cup {k} |-> IF a = k THEN v ELSE f[a]]

EmptyMap == [a \in {} |-> 0]

\* F applied to the value of x: x is computed once, as a local assigned by a
\* statement is, and F's body reads that value
With(x, F(_)) == CHOOSE y \in {F(v) : v \in {x}} : TRUE

----------------------------------------------------------------------------
(* Noise source: noise.pnoise2(a, b, octaves=6, persistence=0.5, lacunarity=1.8). *)
(* The library is external; it is a deterministic function of its arguments.     *)
(* Arguments are in units of TERRAIN_SCALE / 10 = 0.005.                          *)

NoiseLevels == 9

NoiseStep == 80

Pnoise2(w, a, b) ==
    IF w = "flat" THEN 0
    ELSE ((((a * 7 + b * 11 + (a \div 10) * (b \div 10) * 3) % NoiseLevels) - 4) * NoiseStep)

\* x * TERRAIN_SCALE * block_size + SEED
NoiseArg(p, bs) == p * bs + SEED * 200

----------------------------------------------------------------------------
(* Terrain *)

NewTerrain(sm) ==
    [vertices |-> EmptyMap, generated_area |-> {}, block_size |-> TERRAIN_BLOCK_SIZE,
     smooth |-> sm, erosion_cache |-> EmptyMap]

CellXU(t) == t.block_size * 50

\* the value memoized for lattice point (px, pz): core.py:391-395 and 422-426
VertexValue(t, px, pz) ==
    Pnoise2(world, NoiseArg(px, t.block_size), NoiseArg(pz, t.block_size)) * HEIGHT_SCALE * NoiseToYU

\* the nearest-lattice value of the non-smooth branch: core.py:378-380
DiscreteValue(x0, z0) ==
    Pnoise2(world, NoiseArg(x0, 10), NoiseArg(z0, 10)) * HEIGHT_SCALE * NoiseToYU

\* the corners in the order the loops of core.py:386-396 append them
Corners(x0, z0) == << <<x0, z0>>, <<x0, z0 + 1>>, <<x0 + 1, z0>>, <<x0 + 1, z0 + 1>> >>

Memoize(t, verts, c) ==
    IF c \in DOMAIN verts THEN verts ELSE Put(verts, c, VertexValue(t, c[1], c[2]))

FillCorners(t, x0, z0) ==
    LET cs == Corners(x0, z0)
    IN  With(Memoize(t, t.vertices, cs[1]), LAMBDA v1 :
        With(Memoize(t, v1, cs[2]), LAMBDA v2 :
        With(Memoize(t, v2, cs[3]), LAMBDA v3 :
        Memoize(t, v3, cs[4]))))

\* core.py:398-401; fx, fz are the fractional offsets times the cell width c
Blend(points, fx, fz, c) ==
    LET q == c * c
    IN  (points[1] \div q) * (c - fx) * (c - fz)
      + (points[2] \div q) * fx * (c - fz)
      + (points[3] \div q) * (c - fx) * fz
      + (points[4] \div q) * fx * fz

\* Terrain.get_height: the returned height h and the terrain t after the call
get_height(t, x, z) ==
    LET c   == CellXU(t)
        x0  == Trunc(x, c)
        z0  == Trunc(z, c)
        key == <<Round2(x), Round2(z)>>
    IN  IF key \in DOMAIN t.erosion_cache
        THEN [h |-> t.erosion_cache[key], t |-> t]
        ELSE IF ~t.smooth
        THEN With(DiscreteValue(x0, z0), LAMBDA height :
                  [h |-> height,
                   t |-> [t EXCEPT !.erosion_cache = Put(@, key, height)]])
        ELSE With(FillCorners(t, x0, z0), LAMBDA verts :
             With([i \in 1..4 |-> verts[Corners(x0, z0)[i]]], LAMBDA points :
             With(Blend(points, x - x0 * c, z - z0 * c, c), LAMBDA height :
                  [h |-> height,
                   t |-> [t EXCEPT !.vertices = verts,
                                   !.erosion_cache = Put(@, key, height)]])))

\* Terrain.get_slope_angle: the two central differences (dx, dz) the angle is
\* computed from, and the terrain after the four get_height calls
EPS == 5

get_slope_angle_SignError(t, x, z) ==
    With(get_height(t, x + EPS, z), LAMBDA a :
    With(get_height(a.t, x - EPS, z), LAMBDA b :
    With(get_height(b.t, x, z + EPS), LAMBDA c :
    With(get_height(c.t, x, z - EPS), LAMBDA d :
         [dx |-> a.h + b.h, dz |-> c.h - d.h, t |-> d.t]))))

get_slope_angle(t, x, z) ==
    With(get_height(t, x + EPS, z), LAMBDA a :
    With(get_height(a.t, x - EPS, z), LAMBDA b :
    With(get_height(b.t, x, z + EPS), LAMBDA c :
    With(get_height(c.t, x, z - EPS), LAMBDA d :
         [dx |-> a.h - b.h, dz |-> c.h - d.h, t |-> d.t]))))

\* Terrain.generate_area
Window(t, center_x, center_z) ==
    LET radius == Trunc(LOAD_RADIUS * 10, t.block_size)
        cx == Trunc(center_x, CellXU(t))
        cz == Trunc(center_z, CellXU(t))
    IN  {<<cx + i, cz + j>> : i \in (-radius)..radius, j \in (-radius)..radius}

generate_area_NoMemo(t, center_x, center_z) ==
    With(Window(t, center_x, center_z), LAMBDA new_area :
         [n |-> Cardinality(new_area),
          t |-> [t EXCEPT !.generated_area = new_area]])

generate_area_Evicting(t, center_x, center_z) ==
    With(Window(t, center_x, center_z), LAMBDA new_area :
         [n |-> Cardinality(new_area),
          t |-> [t EXCEPT !.vertices = [p \in new_area |->
                                           IF p \in DOMAIN t.vertices THEN t.vertices[p]
                                           ELSE VertexValue(t, p[1], p[2])],
                          !.generated_area = new_area]])

generate_area_Accumulating(t, center_x, center_z) ==
    With(Window(t, center_x, center_z), LAMBDA new_area :
         [n |-> Cardinality(new_area),
          t |-> [t EXCEPT !.vertices = [p \in DOMAIN t.vertices \cup new_area |->
                                           IF p \in DOMAIN t.vertices THEN t.vertices[p]
                                           ELSE VertexValue(t, p[1], p[2])],
                          !.generated_area = t.generated_area \cup new_area]])

generate_area(t, center_x, center_z) ==
    With(Window(t, center_x, center_z), LAMBDA new_area :
         [n |-> Cardinality(new_area),
          t |-> [t EXCEPT !.vertices = [p \in DOMAIN t.vertices \cup new_area |->
                                           IF p \in DOMAIN t.vertices THEN t.vertices[p]
                                           ELSE VertexValue(t, p[1], p[2])],
                          !.generated_area = new_area]])


\* Terrain.get_terrain_type: three noise evaluations weighted 0.6 / 0.3 / 0.1
\* (noise values in thousandths), normalised to 0..10000 and mapped to a label
TypeNoise(w, k, x, z) ==
    IF w = "flat" THEN 0
    ELSE (((Trunc(x, 250) * (3 + k) + Trunc(z, 250) * (5 + 2 * k) + SEED * k) % 21) - 10) * 100

\* the normalised score of core.py:438-461, in ten-thousandths
normalized_score(t, x, z) ==
    LET terrain_type_val == TypeNoise(world, 2, x, z)
        variation        == TypeNoise(world, 3, x, z)
        detail           == TypeNoise(world, 4, x, z)
        terrain_score    == terrain_type_val * 6 + variation * 3 + detail
    IN  (terrain_score + 10000) \div 2

get_terrain_type_Inclusive(t, x, z) ==
    With(normalized_score(t, x, z), LAMBDA score :
        IF score <= 1500 THEN "BASIN"
        ELSE IF score <= 3000 THEN "PLAINS"
        ELSE IF score <= 4500 THEN "HILLS"
        ELSE IF score <= 6000 THEN "VALLEY"
        ELSE IF score <= 7500 THEN "PLATEAU"
        ELSE IF score <= 9000 THEN "MOUNTAINS"
        ELSE "CANYON")

get_terrain_type(t, x, z) ==
    With(normalized_score(t, x, z), LAMBDA score :
        IF score < 1500 THEN "BASIN"
        ELSE IF score < 3000 THEN "PLAINS"
        ELSE IF score < 4500 THEN "HILLS"
        ELSE IF score < 6000 THEN "VALLEY"
        ELSE IF score < 7500 THEN "PLATEAU"
        ELSE IF score < 9000 THEN "MOUNTAINS"
        ELSE "CANYON")

----------------------------------------------------------------------------
(* Player *)

\* Player.__init__: pos[1] is seeded from the height field at the origin
NewPlayer(t) ==
    LET g == get_height(t, 0, 0)
    IN  [p |-> [pos |-> <<0, g.h + PLAYER_HEIGHT, 0>>,
                vel |-> <<0, 0, 0>>,
                yaw |-> 0,
                pitch |-> 0,
                on_ground |-> TRUE,
                last_collision |-> <<"None">>,
                current_terrain_type |-> "PLAINS",
                mode |-> NORMAL_MODE,
                lift_force |-> BASE_LIFT,
                crouching |-> FALSE,
                free_flight |-> FALSE,
                flight_timer |-> 0,
                max_lift_active |-> FALSE],
         t |-> g.t]

\* toggle_flight_mode without the cooldown guard of core.py:556-557
toggle_flight_mode_NoCooldown(p) ==
    IF p.mode = NORMAL_MODE
    THEN [p EXCEPT !.mode = FLIGHT_MODE, !.free_flight = FALSE, !.lift_force = BASE_LIFT,
                   !.max_lift_active = FALSE, !.flight_timer = flight_cooldown]
    ELSE [p EXCEPT !.mode = NORMAL_MODE, !.lift_force = BASE_LIFT,
                   !.vel = <<p.vel[1], 0, p.vel[3]>>, !.flight_timer = flight_cooldown]

\* Player.toggle_flight_mode
toggle_flight_mode(p) ==
    IF p.flight_timer > 0 THEN p
    ELSE IF p.mode = NORMAL_MODE
    THEN [p EXCEPT !.mode = FLIGHT_MODE, !.free_flight = FALSE, !.lift_force = BASE_LIFT,
                   !.max_lift_active = FALSE, !.flight_timer = flight_cooldown]
    ELSE IF p.mode = FLIGHT_MODE
    THEN [p EXCEPT !.mode = NORMAL_MODE, !.lift_force = BASE_LIFT,
                   !.vel = <<p.vel[1], 0, p.vel[3]>>, !.flight_timer = flight_cooldown]
    ELSE IF p.mode = FREE_FLIGHT_MODE
    THEN [p EXCEPT !.mode = NORMAL_MODE, !.lift_force = BASE_LIFT,
                   !.vel = <<p.vel[1], 0, p.vel[3]>>, !.flight_timer = flight_cooldown]
    ELSE p

\* Player.toggle_free_flight
toggle_free_flight(p) ==
    IF p.flight_timer > 0 THEN p
    ELSE IF p.mode = FREE_FLIGHT_MODE
    THEN [p EXCEPT !.mode = FLIGHT_MODE, !.flight_timer = flight_cooldown]
    ELSE [p EXCEPT !.mode = FREE_FLIGHT_MODE, !.free_flight = TRUE,
                   !.flight_timer = flight_cooldown]

\* reset_flight gated by the cooldown like the toggles
reset_flight_Gated(p) ==
    IF p.flight_timer > 0 THEN p
    ELSE [p EXCEPT !.mode = NORMAL_MODE, !.lift_force = BASE_LIFT, !.free_flight = FALSE,
                   !.vel = <<p.vel[1], 0, p.vel[3]>>, !.max_lift_active = FALSE]

\* reset_flight that also restarts the mode cooldown
reset_flight_RestartsCooldown(p) ==
    [p EXCEPT !.mode = NORMAL_MODE, !.lift_force = BASE_LIFT, !.free_flight = FALSE,
              !.vel = <<p.vel[1], 0, p.vel[3]>>, !.max_lift_active = FALSE,
              !.flight_timer = flight_cooldown]

\* Player.reset_flight
reset_flight(p) ==
    [p EXCEPT !.mode = NORMAL_MODE, !.lift_force = BASE_LIFT, !.free_flight = FALSE,
              !.vel = <<p.vel[1], 0, p.vel[3]>>, !.max_lift_active = FALSE]

Min(a, b) == IF a <= b THEN a ELSE b

Max(a, b) == IF a >= b THEN a ELSE b

\* increase_lift without the min of core.py:601
increase_lift_Unclamped(p) == [p EXCEPT !.lift_force = p.lift_force + LIFT_INCREMENT]

\* Player.increase_lift / decrease_lift / set_hover_lift / toggle_max_lift
increase_lift(p) == [p EXCEPT !.lift_force = Min(MAX_LIFT, p.lift_force + LIFT_INCREMENT)]

decrease_lift(p) == [p EXCEPT !.lift_force = Max(0, p.lift_force - LIFT_INCREMENT)]

\* set_hover_lift that assigns the base lift instead of HOVER_LIFT
set_hover_lift_Base(p) == [p EXCEPT !.lift_force = BASE_LIFT]

set_hover_lift(p) == [p EXCEPT !.lift_force = HOVER_LIFT]

toggle_max_lift(p) ==
    [p EXCEPT !.lift_force = IF p.max_lift_active THEN BASE_LIFT ELSE MAX_LIFT,
              !.max_lift_active = ~p.max_lift_active]

\* Player.toggle_crouch(state): snaps pos[1] to the terrain plus the stance height
toggle_crouch(p, t, state) ==
    With(get_height(t, p.pos[1], p.pos[3]), LAMBDA g :
         [p |-> [p EXCEPT !.crouching = state,
                          !.pos = <<p.pos[1],
                                    g.h + (IF state THEN CROUCH_HEIGHT ELSE PLAYER_HEIGHT),
                                    p.pos[3]>>],
          t |-> g.t])


----------------------------------------------------------------------------
(* Movement *)

MAX_CLIMB_ANGLE == 45

\* the run 2 * 0.01 m of the central difference, in YU; tan(MAX_CLIMB_ANGLE) = 1
SlopeRun == 2000000

\* degrees(atan2(sqrt(dx^2 + dz^2), 0.02)) <= MAX_CLIMB_ANGLE
SlopeWalkable(dx, dz) ==
    /\ Abs(dx) <= SlopeRun
    /\ Abs(dz) <= SlopeRun
    /\ (dx \div 100) * (dx \div 100) + (dz \div 100) * (dz \div 100)
         <= (SlopeRun \div 100) * (SlopeRun \div 100)

\* what the angle printed in the blocked reason is computed from: the squared
\* rise of the central difference, in (1e-4 m)^2
SlopeRise2(dx, dz) ==
    (Trunc(dx, 10000)) * (Trunc(dx, 10000)) + (Trunc(dz, 10000)) * (Trunc(dz, 10000))

\* cos / sin of a yaw that is a multiple of 90 degrees (yaw in 1/100 degree)
CosYaw(y) == CASE y % 36000 = 0 -> 1000 [] y % 36000 = 18000 -> -1000 [] OTHER -> 0

SinYaw(y) == CASE y % 36000 = 9000 -> 1000 [] y % 36000 = 27000 -> -1000 [] OTHER -> 0

\* cos / sin of the pitch (1/100 degree), for the pitches -89, 0, 89
CosPitch(q) == IF q = 0 THEN 1000 ELSE 17

SinPitch(q) == IF q = 0 THEN 0 ELSE IF q > 0 THEN 1000 ELSE -1000

RECURSIVE IsqrtFrom(_, _)
IsqrtFrom(n, r) ==
    IF r * r <= n /\ (r + 1) * (r + 1) > n THEN r
    ELSE IsqrtFrom(n, (r + n \div r) \div 2)

Isqrt(n) == IF n = 0 THEN 0 ELSE IsqrtFrom(n, 4096)

\* the W/A/S/D intent projected on the yaw basis (thousandths): core.py:665-671
MoveDir(p, k) ==
    LET c == CosYaw(p.yaw)
        s == SinYaw(p.yaw)
        B(key) == IF key \in k THEN 1 ELSE 0
    IN  << (B("w") - B("s")) * c + (B("a") - B("d")) * s,
           (B("w") - B("s")) * s - (B("a") - B("d")) * c >>

\* component / length * speed * dt, in XU (speed in mm/s, dt in ms)
Displace(m, length, speed, d) ==
    Trunc(Trunc(m * 1000, length) * ((speed * d) \div 1000), 2000)

\* check_movement whose jump-over branch lacks the "not self.on_ground" of core.py:547
check_movement_GroundedJump(p, t, dx, dz) ==
    With(get_height(t, p.pos[1], p.pos[3]), LAMBDA cur :
    With(get_height(cur.t, p.pos[1] + dx, p.pos[3] + dz), LAMBDA tgt :
    With(get_slope_angle(tgt.t, p.pos[1] + dx, p.pos[3] + dz), LAMBDA sl :
        LET height_diff == tgt.h - cur.h
            can_walk_over == \/ height_diff < 0
                             \/ SlopeWalkable(sl.dx, sl.dz)
                             \/ Abs(height_diff) <= STEP_HEIGHT
            can_jump_over == Abs(height_diff) < MAX_JUMP_HEIGHT
        IN  IF can_walk_over
            THEN [ok |-> TRUE,
                  p  |-> [p EXCEPT !.last_collision = <<"Walkable slope">>],
                  t  |-> IF height_diff < 0 THEN tgt.t ELSE sl.t]
            ELSE IF can_jump_over
            THEN [ok |-> TRUE,
                  p  |-> [p EXCEPT !.last_collision = <<"Jumpable obstacle">>],
                  t  |-> sl.t]
            ELSE [ok |-> FALSE,
                  p  |-> [p EXCEPT !.last_collision =
                                     <<"Blocked by slope", SlopeRise2(sl.dx, sl.dz)>>],
                  t  |-> sl.t])))

\* check_movement whose can_walk_over lacks the height_diff < 0 clause of core.py:524-525
check_movement_NoDownhill(p, t, dx, dz) ==
    With(get_height(t, p.pos[1], p.pos[3]), LAMBDA cur :
    With(get_height(cur.t, p.pos[1] + dx, p.pos[3] + dz), LAMBDA tgt :
    With(get_slope_angle(tgt.t, p.pos[1] + dx, p.pos[3] + dz), LAMBDA sl :
        LET height_diff == tgt.h - cur.h
            can_walk_over == \/ SlopeWalkable(sl.dx, sl.dz)
                             \/ Abs(height_diff) <= STEP_HEIGHT
            can_jump_over == Abs(height_diff) < MAX_JUMP_HEIGHT
        IN  IF can_walk_over
            THEN [ok |-> TRUE,
                  p  |-> [p EXCEPT !.last_collision = <<"Walkable slope">>],
                  t  |-> sl.t]
            ELSE IF can_jump_over /\ ~p.on_ground
            THEN [ok |-> TRUE,
                  p  |-> [p EXCEPT !.last_collision = <<"Jumpable obstacle">>],
                  t  |-> sl.t]
            ELSE [ok |-> FALSE,
                  p  |-> [p EXCEPT !.last_collision =
                                     <<"Blocked by slope", SlopeRise2(sl.dx, sl.dz)>>],
                  t  |-> sl.t])))

\* check_movement that refuses every move once a blocked reason is recorded
check_movement_StickyBlock(p, t, dx, dz) ==
    IF p.last_collision[1] = "Blocked by slope" THEN [ok |-> FALSE, p |-> p, t |-> t] ELSE
    With(get_height(t, p.pos[1], p.pos[3]), LAMBDA cur :
    With(get_height(cur.t, p.pos[1] + dx, p.pos[3] + dz), LAMBDA tgt :
    With(get_slope_angle(tgt.t, p.pos[1] + dx, p.pos[3] + dz), LAMBDA sl :
        LET height_diff == tgt.h - cur.h
            can_walk_over == \/ height_diff < 0
                             \/ SlopeWalkable(sl.dx, sl.dz)
                             \/ Abs(height_diff) <= STEP_HEIGHT
            can_step_up   == /\ ~(dx = 0 /\ dz = 0)
                             /\ 0 < height_diff
                             /\ height_diff <= STEP_HEIGHT
            can_jump_over == Abs(height_diff) < MAX_JUMP_HEIGHT
        IN  IF can_walk_over
            THEN [ok |-> TRUE,
                  p  |-> [p EXCEPT !.last_collision = <<"Walkable slope">>],
                  t  |-> IF height_diff < 0 THEN tgt.t ELSE sl.t]
            ELSE IF can_step_up
            THEN [ok |-> TRUE,
                  p  |-> [p EXCEPT !.last_collision = <<"Stepped up">>,
                                   !.pos = <<p.pos[1], p.pos[2] + (tgt.h - cur.h), p.pos[3]>>],
                  t  |-> sl.t]
            ELSE IF can_jump_over /\ ~p.on_ground
            THEN [ok |-> TRUE,
                  p  |-> [p EXCEPT !.last_collision = <<"Jumpable obstacle">>],
                  t  |-> sl.t]
            ELSE [ok |-> FALSE,
                  p  |-> [p EXCEPT !.last_collision =
                                     <<"Blocked by slope", SlopeRise2(sl.dx, sl.dz)>>],
                  t  |-> sl.t])))

\* Player.can_walk_over / can_step_up / can_jump_over / check_movement.
\* Returns whether the move is allowed, the player and the terrain afterwards.
check_movement(p, t, dx, dz) ==
    With(get_height(t, p.pos[1], p.pos[3]), LAMBDA cur :
    With(get_height(cur.t, p.pos[1] + dx, p.pos[3] + dz), LAMBDA tgt :
    With(get_slope_angle(tgt.t, p.pos[1] + dx, p.pos[3] + dz), LAMBDA sl :
        LET height_diff == tgt.h - cur.h
            can_walk_over == \/ height_diff < 0
                             \/ SlopeWalkable(sl.dx, sl.dz)
                             \/ Abs(height_diff) <= STEP_HEIGHT
            can_step_up   == /\ ~(dx = 0 /\ dz = 0)
                             /\ 0 < height_diff
                             /\ height_diff <= STEP_HEIGHT
            can_jump_over == Abs(height_diff) < MAX_JUMP_HEIGHT
        IN  IF can_walk_over
            THEN [ok |-> TRUE,
                  p  |-> [p EXCEPT !.last_collision = <<"Walkable slope">>],
                  t  |-> IF height_diff < 0 THEN tgt.t ELSE sl.t]
            ELSE IF can_step_up
            THEN [ok |-> TRUE,
                  p  |-> [p EXCEPT !.last_collision = <<"Stepped up">>,
                                   !.pos = <<p.pos[1], p.pos[2] + (tgt.h - cur.h), p.pos[3]>>],
                  t  |-> sl.t]
            ELSE IF can_jump_over /\ ~p.on_ground
            THEN [ok |-> TRUE,
                  p  |-> [p EXCEPT !.last_collision = <<"Jumpable obstacle">>],
                  t  |-> sl.t]
            ELSE [ok |-> FALSE,
                  p  |-> [p EXCEPT !.last_collision =
                                     <<"Blocked by slope", SlopeRise2(sl.dx, sl.dz)>>],
                  t  |-> sl.t])))

\* update_normal_movement that keeps the displacement of a refused move (core.py:678-679 dropped)
update_normal_movement_Sliding(p, t, d, k) ==
    With(MoveDir(p, k), LAMBDA md :
    With(Isqrt(md[1] * md[1] + md[2] * md[2]), LAMBDA length :
    With(IF length > 0
         THEN <<Displace(md[1], length, PLAYER_SPEED, d),
                Displace(md[2], length, PLAYER_SPEED, d)>>
         ELSE <<0, 0>>, LAMBDA want :
    With(IF length > 0 THEN check_movement(p, t, want[1], want[2])
         ELSE [ok |-> TRUE, p |-> p, t |-> t], LAMBDA chk :
    With(want, LAMBDA move :
    With(chk.p.vel[2] - GRAVITY * d, LAMBDA vy :
    With([chk.p EXCEPT !.vel = <<chk.p.vel[1], vy, chk.p.vel[3]>>,
                       !.pos = <<chk.p.pos[1] + move[1] + chk.p.vel[1] * d,
                                 chk.p.pos[2] + vy * d,
                                 chk.p.pos[3] + move[2] + chk.p.vel[3] * d>>], LAMBDA p1 :
    With(get_height(chk.t, p1.pos[1], p1.pos[3]), LAMBDA th :
    With(toggle_crouch(p1, th.t, "LSHIFT" \in k), LAMBDA cr :
    With(IF cr.p.crouching THEN CROUCH_HEIGHT ELSE PLAYER_HEIGHT, LAMBDA current_height :
    With(IF cr.p.pos[2] < th.h + current_height
         THEN [cr.p EXCEPT !.pos = <<cr.p.pos[1], th.h + current_height, cr.p.pos[3]>>,
                           !.vel = <<cr.p.vel[1], 0, cr.p.vel[3]>>,
                           !.on_ground = TRUE]
         ELSE cr.p, LAMBDA p2 :
        [p |-> IF "SPACE" \in k /\ p2.on_ground
               THEN [p2 EXCEPT !.vel = <<p2.vel[1], JUMP_FORCE, p2.vel[3]>>,
                               !.on_ground = FALSE]
               ELSE p2,
         t |-> cr.t])))))))))))

\* Player.update_normal_movement
update_normal_movement(p, t, d, k) ==
    With(MoveDir(p, k), LAMBDA md :
    With(Isqrt(md[1] * md[1] + md[2] * md[2]), LAMBDA length :
    With(IF length > 0
         THEN <<Displace(md[1], length, PLAYER_SPEED, d),
                Displace(md[2], length, PLAYER_SPEED, d)>>
         ELSE <<0, 0>>, LAMBDA want :
    With(IF length > 0 THEN check_movement(p, t, want[1], want[2])
         ELSE [ok |-> TRUE, p |-> p, t |-> t], LAMBDA chk :
    With(IF chk.ok THEN want ELSE <<0, 0>>, LAMBDA move :
    With(chk.p.vel[2] - GRAVITY * d, LAMBDA vy :
    With([chk.p EXCEPT !.vel = <<chk.p.vel[1], vy, chk.p.vel[3]>>,
                       !.pos = <<chk.p.pos[1] + move[1] + chk.p.vel[1] * d,
                                 chk.p.pos[2] + vy * d,
                                 chk.p.pos[3] + move[2] + chk.p.vel[3] * d>>], LAMBDA p1 :
    With(get_height(chk.t, p1.pos[1], p1.pos[3]), LAMBDA th :
    With(toggle_crouch(p1, th.t, "LSHIFT" \in k), LAMBDA cr :
    With(IF cr.p.crouching THEN CROUCH_HEIGHT ELSE PLAYER_HEIGHT, LAMBDA current_height :
    With(IF cr.p.pos[2] < th.h + current_height
         THEN [cr.p EXCEPT !.pos = <<cr.p.pos[1], th.h + current_height, cr.p.pos[3]>>,
                           !.vel = <<cr.p.vel[1], 0, cr.p.vel[3]>>,
                           !.on_ground = TRUE]
         ELSE cr.p, LAMBDA p2 :
        [p |-> IF "SPACE" \in k /\ p2.on_ground
               THEN [p2 EXCEPT !.vel = <<p2.vel[1], JUMP_FORCE, p2.vel[3]>>,
                               !.on_ground = FALSE]
               ELSE p2,
         t |-> cr.t])))))))))))

\* update_flight_movement without the ground clamp of core.py:735-739
update_flight_movement_NoClamp(p, t, d, k) ==
    With(MoveDir(p, k), LAMBDA md :
    With(Isqrt(md[1] * md[1] + md[2] * md[2]), LAMBDA length :
    With(IF "LSHIFT" \in k
         THEN (PLAYER_SPEED * FLIGHT_SPEED_MULTIPLIER * 3) \div 2
         ELSE PLAYER_SPEED * FLIGHT_SPEED_MULTIPLIER, LAMBDA speed :
    With(IF length > 0
         THEN <<Displace(md[1], length, speed, d), Displace(md[2], length, speed, d)>>
         ELSE <<0, 0>>, LAMBDA move :
    With(IF "SPACE" \in k THEN p.lift_force
         ELSE IF "LSHIFT" \in k THEN -((p.lift_force * 7) \div 10)
         ELSE p.vel[2] + Trunc((GRAVITY * 1000 - p.lift_force) * d, 2000), LAMBDA vy :
    With([p EXCEPT !.vel = <<p.vel[1], vy, p.vel[3]>>,
                   !.pos = <<p.pos[1] + move[1], p.pos[2] + vy * d, p.pos[3] + move[2]>>],
         LAMBDA p1 :
    With(get_height(t, p1.pos[1], p1.pos[3]), LAMBDA th :
        [p |-> [p1 EXCEPT !.on_ground = FALSE],
         t |-> th.t])))))))

\* Player.update_flight_movement
update_flight_movement(p, t, d, k) ==
    With(MoveDir(p, k), LAMBDA md :
    With(Isqrt(md[1] * md[1] + md[2] * md[2]), LAMBDA length :
    With(IF "LSHIFT" \in k
         THEN (PLAYER_SPEED * FLIGHT_SPEED_MULTIPLIER * 3) \div 2
         ELSE PLAYER_SPEED * FLIGHT_SPEED_MULTIPLIER, LAMBDA speed :
    With(IF length > 0
         THEN <<Displace(md[1], length, speed, d), Displace(md[2], length, speed, d)>>
         ELSE <<0, 0>>, LAMBDA move :
    With(IF "SPACE" \in k THEN p.lift_force
         ELSE IF "LSHIFT" \in k THEN -((p.lift_force * 7) \div 10)
         ELSE p.vel[2] + Trunc((GRAVITY * 1000 - p.lift_force) * d, 2000), LAMBDA vy :
    With([p EXCEPT !.vel = <<p.vel[1], vy, p.vel[3]>>,
                   !.pos = <<p.pos[1] + move[1], p.pos[2] + vy * d, p.pos[3] + move[2]>>],
         LAMBDA p1 :
    With(get_height(t, p1.pos[1], p1.pos[3]), LAMBDA th :
        [p |-> IF p1.pos[2] < th.h + PLAYER_HEIGHT
               THEN [p1 EXCEPT !.pos = <<p1.pos[1], th.h + PLAYER_HEIGHT, p1.pos[3]>>,
                               !.vel = <<p1.vel[1], 0, p1.vel[3]>>,
                               !.on_ground = TRUE]
               ELSE [p1 EXCEPT !.on_ground = FALSE],
         t |-> th.t])))))))

\* update_free_flight_movement that also applies gravity to the velocity
update_free_flight_movement_Gravity(p, t, d, k) ==
    LET cy == CosYaw(p.yaw)
        sy == SinYaw(p.yaw)
        cp == CosPitch(p.pitch)
        sp == SinPitch(p.pitch)
        B(key) == IF key \in k THEN 1 ELSE 0
        forward == <<(cy * cp) \div 1000, sp, (sy * cp) \div 1000>>
        right   == <<-sy, 0, cy>>
        fw == B("w") - B("s")
        rt == B("a") - B("d")
        up == B("SPACE") - B("LSHIFT")
        md == <<fw * forward[1] + rt * right[1],
                fw * forward[2] + rt * right[2] + up * 1000,
                fw * forward[3] + rt * right[3]>>
        length == Isqrt(md[1] * md[1] + md[2] * md[2] + md[3] * md[3])
        speed  == PLAYER_SPEED * FLIGHT_SPEED_MULTIPLIER * 2
        unit(i) == IF length > 0 THEN Trunc(md[i] * 1000, length) ELSE md[i]
        mm(i)   == unit(i) * ((speed * d) \div 1000)
    IN  [p |-> [p EXCEPT !.pos = <<p.pos[1] + Trunc(mm(1), 2000),
                                   p.pos[2] + mm(2) * 100,
                                   p.pos[3] + Trunc(mm(3), 2000)>>,
                         !.vel = <<p.vel[1], p.vel[2] - GRAVITY * d, p.vel[3]>>,
                         !.on_ground = FALSE],
         t |-> t]

\* Player.update_free_flight_movement (the terrain is not queried)
update_free_flight_movement(p, t, d, k) ==
    LET cy == CosYaw(p.yaw)
        sy == SinYaw(p.yaw)
        cp == CosPitch(p.pitch)
        sp == SinPitch(p.pitch)
        B(key) == IF key \in k THEN 1 ELSE 0
        forward == <<(cy * cp) \div 1000, sp, (sy * cp) \div 1000>>
        right   == <<-sy, 0, cy>>
        fw == B("w") - B("s")
        rt == B("a") - B("d")
        up == B("SPACE") - B("LSHIFT")
        md == <<fw * forward[1] + rt * right[1],
                fw * forward[2] + rt * right[2] + up * 1000,
                fw * forward[3] + rt * right[3]>>
        length == Isqrt(md[1] * md[1] + md[2] * md[2] + md[3] * md[3])
        speed  == PLAYER_SPEED * FLIGHT_SPEED_MULTIPLIER * 2
        unit(i) == IF length > 0 THEN Trunc(md[i] * 1000, length) ELSE md[i]
        mm(i)   == unit(i) * ((speed * d) \div 1000)
    IN  [p |-> [p EXCEPT !.pos = <<p.pos[1] + Trunc(mm(1), 2000),
                                   p.pos[2] + mm(2) * 100,
                                   p.pos[3] + Trunc(mm(3), 2000)>>,
                         !.on_ground = FALSE],
         t |-> t]


----------------------------------------------------------------------------
(* Session: construction (Tsin.init) and one frame of Tsin.update *)

Seeds == {0, 1}

Worlds == {"flat", "hills"}

NoInput == [k |-> {}, d |-> 0, m |-> <<0, 0>>]

\* keys held, frame time (ms) and mouse motion of a frame in the game state
FrameInputs ==
    { [k |-> {},               d |-> 16,  m |-> <<0, 0>>],
      [k |-> {},               d |-> 500, m |-> <<0, 0>>],
      [k |-> {"TAB"},          d |-> 16,  m |-> <<0, 0>>],
      [k |-> {"TAB", "LCTRL"}, d |-> 16,  m |-> <<0, 0>>],
      [k |-> {"TAB", "SPACE"}, d |-> 16,  m |-> <<0, 0>>],
      [k |-> {"F1"},           d |-> 16,  m |-> <<0, 0>>],
      [k |-> {"F1", "TAB"},    d |-> 16,  m |-> <<0, 0>>],
      [k |-> {"LALT"},         d |-> 16,  m |-> <<0, 0>>],
      [k |-> {"LCTRL"},        d |-> 16,  m |-> <<0, 0>>],
      [k |-> {"SPACE"},        d |-> 16,  m |-> <<0, 0>>],
      [k |-> {"LSHIFT"},       d |-> 16,  m |-> <<0, 0>>],
      [k |-> {"w"},            d |-> 500, m |-> <<600, 0>>] }

Init ==
    /\ SEED \in Seeds
    /\ world \in Worlds
    /\ SMOOTH_TERRAIN = TRUE
    /\ TERRAIN_DETAIL = 10
    /\ \E np \in {NewPlayer(NewTerrain(TRUE))} : player = np.p /\ terrain = np.t
    /\ ui_state = "title"
    /\ pc = "frame"
    /\ keys = NoInput.k
    /\ dt = NoInput.d
    /\ mouse_rel = NoInput.m
    /\ frames = 0
    /\ call = <<"init">>
    /\ ret = 0
    /\ ncalls = 0

\* Tsin.update is entered: core.py:1010-1019
BeginFrame ==
    /\ pc = "frame"
    /\ frames < MaxFrames
    /\ pc' = "events"
    /\ frames' = frames + 1
    /\ UNCHANGED <<terrain, player, ui_state, SMOOTH_TERRAIN, TERRAIN_DETAIL, SEED, world,
                   keys, dt, mouse_rel, call, ret, ncalls>>

\* KEYDOWN K_ESCAPE in the game or pause state: core.py:1026-1034
KeyEscape ==
    /\ pc = "events"
    /\ ui_state \in {"game", "pause"}
    /\ ui_state' = IF ui_state = "game" THEN "pause" ELSE "game"
    /\ pc' = "state"
    /\ UNCHANGED <<terrain, player, SMOOTH_TERRAIN, TERRAIN_DETAIL, SEED, world,
                   keys, dt, mouse_rel, frames, call, ret, ncalls>>

\* the body of the K_F6 handler: core.py:1047-1051
F6Handler(t) == [t EXCEPT !.smooth = ~SMOOTH_TERRAIN, !.vertices = EmptyMap]

KeyF6 ==
    /\ pc = "events"
    /\ SMOOTH_TERRAIN' = ~SMOOTH_TERRAIN
    /\ terrain' = F6Handler(terrain)
    /\ pc' = "state"
    /\ UNCHANGED <<player, ui_state, TERRAIN_DETAIL, SEED, world,
                   keys, dt, mouse_rel, frames, call, ret, ncalls>>

\* the body of the K_EQUALS / K_PLUS and K_MINUS handlers: core.py:1053-1060
DetailHandler(t) == [t EXCEPT !.vertices = EmptyMap]

KeyPlus ==
    /\ pc = "events"
    /\ TERRAIN_DETAIL' = Min(20, TERRAIN_DETAIL + 1)
    /\ terrain' = DetailHandler(terrain)
    /\ pc' = "state"
    /\ UNCHANGED <<player, ui_state, SMOOTH_TERRAIN, SEED, world,
                   keys, dt, mouse_rel, frames, call, ret, ncalls>>

KeyMinus ==
    /\ pc = "events"
    /\ TERRAIN_DETAIL' = Max(1, TERRAIN_DETAIL - 1)
    /\ terrain' = DetailHandler(terrain)
    /\ pc' = "state"
    /\ UNCHANGED <<player, ui_state, SMOOTH_TERRAIN, SEED, world,
                   keys, dt, mouse_rel, frames, call, ret, ncalls>>

\* MOUSEBUTTONDOWN on a button of the title screen or the pause menu: core.py:1093-1109
Click(action) ==
    /\ pc = "events"
    /\ \/ ui_state = "title" /\ action = "start"
       \/ ui_state = "pause" /\ action \in {"continue", "menu"}
    /\ ui_state' = IF action = "menu" THEN "title" ELSE "game"
    /\ pc' = "state"
    /\ UNCHANGED <<terrain, player, SMOOTH_TERRAIN, TERRAIN_DETAIL, SEED, world,
                   keys, dt, mouse_rel, frames, call, ret, ncalls>>

\* the event queue holds no event the core reacts to
NoEvent ==
    /\ pc = "events"
    /\ pc' = "state"
    /\ UNCHANGED <<terrain, player, ui_state, SMOOTH_TERRAIN, TERRAIN_DETAIL, SEED, world,
                   keys, dt, mouse_rel, frames, call, ret, ncalls>>

\* a skipped update that still counts the mode cooldown down
SkipUpdate_Counting ==
    /\ pc = "state"
    /\ ui_state # "game"
    /\ pc' = "terrain"
    /\ player' = [player EXCEPT !.flight_timer = IF @ > 0 THEN @ - 16 ELSE @]
    /\ UNCHANGED <<terrain, ui_state, SMOOTH_TERRAIN, TERRAIN_DETAIL, SEED, world,
                   keys, dt, mouse_rel, frames, call, ret, ncalls>>

\* core.py:1115 is false: the player is not updated
SkipUpdate ==
    /\ pc = "state"
    /\ ui_state # "game"
    /\ pc' = "terrain"
    /\ UNCHANGED <<terrain, player, ui_state, SMOOTH_TERRAIN, TERRAIN_DETAIL, SEED, world,
                   keys, dt, mouse_rel, frames, call, ret, ncalls>>

\* core.py:1115-1138: the frame's dt, keys and mouse motion reach update_movement
ReadInput(in) ==
    /\ pc = "state"
    /\ ui_state = "game"
    /\ keys' = in.k
    /\ dt' = in.d
    /\ mouse_rel' = in.m
    /\ pc' = "timer"
    /\ UNCHANGED <<terrain, player, ui_state, SMOOTH_TERRAIN, TERRAIN_DETAIL, SEED, world,
                   frames, call, ret, ncalls>>

\* update_movement, core.py:628-634: flight timer and mouse look
TimerAndLook_Fast(p, d, m) ==
    [p EXCEPT !.flight_timer = IF p.flight_timer > 0 THEN p.flight_timer - 2 * d ELSE p.flight_timer,
              !.yaw = p.yaw + m[1] * 15,
              !.pitch = Max(-8900, Min(8900, p.pitch - m[2] * 15))]

TimerAndLook(p, d, m) ==
    [p EXCEPT !.flight_timer = IF p.flight_timer > 0 THEN p.flight_timer - d ELSE p.flight_timer,
              !.yaw = p.yaw + m[1] * 15,
              !.pitch = Max(-8900, Min(8900, p.pitch - m[2] * 15))]

UpdateTimer ==
    /\ pc = "timer"
    /\ player' = TimerAndLook(player, dt, mouse_rel)
    /\ pc' = "mode"
    /\ UNCHANGED <<terrain, ui_state, SMOOTH_TERRAIN, TERRAIN_DETAIL, SEED, world,
                   keys, dt, mouse_rel, frames, call, ret, ncalls>>

\* update_movement, core.py:636-642: flight mode controls
ModeControls(p, k) ==
    IF "TAB" \in k /\ "LCTRL" \in k THEN toggle_free_flight(p)
    ELSE IF "TAB" \in k /\ "SPACE" \in k THEN toggle_max_lift(p)
    ELSE IF "TAB" \in k THEN toggle_flight_mode(p)
    ELSE p

UpdateMode ==
    /\ pc = "mode"
    /\ player' = ModeControls(player, keys)
    /\ pc' = "reset"
    /\ UNCHANGED <<terrain, ui_state, SMOOTH_TERRAIN, TERRAIN_DETAIL, SEED, world,
                   keys, dt, mouse_rel, frames, call, ret, ncalls>>

\* update_movement, core.py:644-645
ResetControl(p, k) == IF "F1" \in k THEN reset_flight(p) ELSE p

UpdateReset ==
    /\ pc = "reset"
    /\ player' = ResetControl(player, keys)
    /\ pc' = "lift"
    /\ UNCHANGED <<terrain, ui_state, SMOOTH_TERRAIN, TERRAIN_DETAIL, SEED, world,
                   keys, dt, mouse_rel, frames, call, ret, ncalls>>

\* update_movement, core.py:647-651
LiftControls(p, k) ==
    LET p1 == IF "LALT" \in k THEN increase_lift(p) ELSE p
    IN  IF "LCTRL" \in k /\ "TAB" \notin k THEN set_hover_lift(p1) ELSE p1

UpdateLift ==
    /\ pc = "lift"
    /\ player' = LiftControls(player, keys)
    /\ pc' = "move"
    /\ UNCHANGED <<terrain, ui_state, SMOOTH_TERRAIN, TERRAIN_DETAIL, SEED, world,
                   keys, dt, mouse_rel, frames, call, ret, ncalls>>

\* update_movement, core.py:653-659: the movement update of the current mode
MoveNormal ==
    /\ pc = "move"
    /\ player.mode = NORMAL_MODE
    /\ \E r \in {update_normal_movement(player, terrain, dt, keys)} :
          player' = r.p /\ terrain' = r.t
    /\ pc' = "type"
    /\ UNCHANGED <<ui_state, SMOOTH_TERRAIN, TERRAIN_DETAIL, SEED, world,
                   keys, dt, mouse_rel, frames, call, ret, ncalls>>

MoveFlight_OldMode ==
    /\ pc = "move"
    /\ player.mode = FLIGHT_MODE
    /\ \E r \in {update_normal_movement(player, terrain, dt, keys)} :
          player' = r.p /\ terrain' = r.t
    /\ pc' = "type"
    /\ UNCHANGED <<ui_state, SMOOTH_TERRAIN, TERRAIN_DETAIL, SEED, world,
                   keys, dt, mouse_rel, frames, call, ret, ncalls>>

MoveFlight ==
    /\ pc = "move"
    /\ player.mode = FLIGHT_MODE
    /\ \E r \in {update_flight_movement(player, terrain, dt, keys)} :
          player' = r.p /\ terrain' = r.t
    /\ pc' = "type"
    /\ UNCHANGED <<ui_state, SMOOTH_TERRAIN, TERRAIN_DETAIL, SEED, world,
                   keys, dt, mouse_rel, frames, call, ret, ncalls>>

MoveFreeFlight ==
    /\ pc = "move"
    /\ player.mode = FREE_FLIGHT_MODE
    /\ \E r \in {update_free_flight_movement(player, terrain, dt, keys)} :
          player' = r.p /\ terrain' = r.t
    /\ pc' = "type"
    /\ UNCHANGED <<ui_state, SMOOTH_TERRAIN, TERRAIN_DETAIL, SEED, world,
                   keys, dt, mouse_rel, frames, call, ret, ncalls>>

\* update_movement, core.py:661-662
UpdateTerrainType ==
    /\ pc = "type"
    /\ player' = [player EXCEPT !.current_terrain_type =
                                   get_terrain_type(terrain, player.pos[1], player.pos[3])]
    /\ pc' = "terrain"
    /\ UNCHANGED <<terrain, ui_state, SMOOTH_TERRAIN, TERRAIN_DETAIL, SEED, world,
                   keys, dt, mouse_rel, frames, call, ret, ncalls>>

\* core.py:1140-1142: generate_area and the slope query for the debug overlay;
\* the frame's locals go out of scope when update returns
UpdateTerrain ==
    /\ pc = "terrain"
    /\ \E g \in {generate_area(terrain, player.pos[1], player.pos[3])} :
          \E s \in {get_slope_angle(g.t, player.pos[1], player.pos[3])} :
             terrain' = s.t
    /\ keys' = NoInput.k
    /\ dt' = NoInput.d
    /\ mouse_rel' = NoInput.m
    /\ pc' = "frame"
    /\ UNCHANGED <<player, ui_state, SMOOTH_TERRAIN, TERRAIN_DETAIL, SEED, world,
                   frames, call, ret, ncalls>>

Next ==
    \/ BeginFrame
    \/ KeyEscape
    \/ KeyF6
    \/ KeyPlus
    \/ KeyMinus
    \/ \E action \in {"start", "continue", "menu"} : Click(action)
    \/ NoEvent
    \/ SkipUpdate
    \/ \E in \in FrameInputs : ReadInput(in)
    \/ UpdateTimer
    \/ UpdateMode
    \/ UpdateReset
    \/ UpdateLift
    \/ MoveNormal
    \/ MoveFlight
    \/ MoveFreeFlight
    \/ UpdateTerrainType
    \/ UpdateTerrain

Spec == Init /\ [][Next]_vars


----------------------------------------------------------------------------
(* The Terrain interface driven directly (sample, slope, generateArea and the *)
(* parameter-change handlers), from the state the session constructs          *)

SamplePoints ==
    { <<0, 0>>, <<2, 0>>, <<250, 0>>, <<0, 250>>, <<250, 100>>, <<498, 0>>, <<500, 0>>,
      <<500, 250>>, <<500, 500>>, <<-250, 0>>, <<-2, -2>> }

SlopePoints == { <<0, 0>>, <<250, 250>> }

AreaCentres == { <<0, 0>>, <<500, 0>>, <<-250, 600>> }

ApiGetHeight(x, z) ==
    /\ ncalls < MaxCalls
    /\ LET key == <<Round2(x), Round2(z)>>
           g   == get_height(terrain, x, z)
       IN  /\ terrain' = g.t
           /\ ret' = g.h
           /\ call' = <<"get_height", x, z, key \in DOMAIN terrain.erosion_cache>>
    /\ ncalls' = ncalls + 1
    /\ UNCHANGED <<player, ui_state, SMOOTH_TERRAIN, TERRAIN_DETAIL, SEED, world,
                   pc, keys, dt, mouse_rel, frames>>

ApiGetSlope(x, z) ==
    /\ ncalls < MaxCalls
    /\ LET s == get_slope_angle(terrain, x, z)
       IN  /\ terrain' = s.t
           /\ ret' = <<s.dx, s.dz>>
           /\ call' = <<"get_slope_angle", x, z>>
    /\ ncalls' = ncalls + 1
    /\ UNCHANGED <<player, ui_state, SMOOTH_TERRAIN, TERRAIN_DETAIL, SEED, world,
                   pc, keys, dt, mouse_rel, frames>>

ApiGenerateArea(x, z) ==
    /\ ncalls < MaxCalls
    /\ LET g == generate_area(terrain, x, z)
       IN  /\ terrain' = g.t
           /\ ret' = g.n
           /\ call' = <<"generate_area", x, z>>
    /\ ncalls' = ncalls + 1
    /\ UNCHANGED <<player, ui_state, SMOOTH_TERRAIN, TERRAIN_DETAIL, SEED, world,
                   pc, keys, dt, mouse_rel, frames>>

ApiToggleSmooth ==
    /\ ncalls < MaxCalls
    /\ SMOOTH_TERRAIN' = ~SMOOTH_TERRAIN
    /\ terrain' = F6Handler(terrain)
    /\ call' = <<"F6">>
    /\ ncalls' = ncalls + 1
    /\ UNCHANGED <<player, ui_state, TERRAIN_DETAIL, SEED, world,
                   pc, keys, dt, mouse_rel, frames, ret>>

ApiDetail(up) ==
    /\ ncalls < MaxCalls
    /\ TERRAIN_DETAIL' = IF up THEN Min(20, TERRAIN_DETAIL + 1) ELSE Max(1, TERRAIN_DETAIL - 1)
    /\ terrain' = DetailHandler(terrain)
    /\ call' = <<"detail", up>>
    /\ ncalls' = ncalls + 1
    /\ UNCHANGED <<player, ui_state, SMOOTH_TERRAIN, SEED, world,
                   pc, keys, dt, mouse_rel, frames, ret>>

\* world coordinates whose scores fall in every band and on band boundaries
TypePoints ==
    { <<0, 0>>, <<250, 0>>, <<-500, -250>>, <<0, 250>>, <<0, -750>>, <<-250, 0>>,
      <<-1500, 750>>, <<-500, 250>>, <<1500, -750>>, <<0, 750>>, <<-250, 750>> }

ApiGetTerrainType(x, z) ==
    /\ ncalls < MaxCalls
    /\ ret' = get_terrain_type(terrain, x, z)
    /\ call' = <<"get_terrain_type", x, z>>
    /\ ncalls' = ncalls + 1
    /\ UNCHANGED <<terrain, player, ui_state, SMOOTH_TERRAIN, TERRAIN_DETAIL, SEED, world,
                   pc, keys, dt, mouse_rel, frames>>

TerrainNext ==
    \/ \E q \in SamplePoints : ApiGetHeight(q[1], q[2])
    \/ \E q \in SlopePoints : ApiGetSlope(q[1], q[2])
    \/ \E q \in AreaCentres : ApiGenerateArea(q[1], q[2])
    \/ ApiToggleSmooth
    \/ \E up \in BOOLEAN : ApiDetail(up)
    \/ \E q \in TypePoints : ApiGetTerrainType(q[1], q[2])

TerrainSpec == Init /\ [][TerrainNext]_vars


----------------------------------------------------------------------------
(* Properties of the flight-mode state machine (specification Spec) *)

\* the keys of the frame request toggle_flight_mode or toggle_free_flight
ToggleKeys(k) == "TAB" \in k /\ ("LCTRL" \in k \/ "SPACE" \notin k)

ModeState(p) == <<p.mode, p.lift_force, p.vel, p.free_flight, p.max_lift_active, p.flight_timer>>

\* C1: a toggle-flight or toggle-free-flight command issued while flight_timer > 0
\* changes neither mode, lift force, velocity, the flight flags nor the timer;
\* a second toggle 16 ms after an accepted one is therefore ignored.
C1_ToggleIgnoredDuringCooldown ==
    [][(pc = "mode" /\ ToggleKeys(keys) /\ player.flight_timer > 0)
         => ModeState(player') = ModeState(player)]_vars

\* a toggle was accepted in one frame and the toggle of the next frame, 16 ms
\* later, has just been ignored
C1_Witness ==
    /\ pc = "reset"
    /\ keys = {"TAB"}
    /\ dt = 16
    /\ player.flight_timer = flight_cooldown - 16
    /\ player.mode = FLIGHT_MODE

\* C2: no toggle command changes the mode directly between Grounded and FreeFlight.
C2_NoDirectGroundedFreeFlightEdge ==
    [][pc = "mode"
         => /\ ~(player.mode = NORMAL_MODE /\ player'.mode = FREE_FLIGHT_MODE)
            /\ ~(player.mode = FREE_FLIGHT_MODE /\ player'.mode = NORMAL_MODE)]_vars

\* C3: every accepted transition that enters or leaves Flight mode leaves the lift
\* force at its base value and the vertical velocity at 0.
C3_FlightTransitionResetsLiftAndVelocity ==
    [][(/\ pc = "mode"
        /\ player'.mode # player.mode
        /\ (player.mode = FLIGHT_MODE \/ player'.mode = FLIGHT_MODE))
         => (player'.lift_force = BASE_LIFT /\ player'.vel[2] = 0)]_vars

\* C4: the reset-flight command sets mode = Grounded and lift = base lift and clears
\* the max-lift and free-flight flags, whatever the cooldown.
C4_ResetForcesGrounded ==
    [][(pc = "reset" /\ "F1" \in keys)
         => /\ player'.mode = NORMAL_MODE
            /\ player'.lift_force = BASE_LIFT
            /\ ~player'.max_lift_active
            /\ ~player'.free_flight]_vars

\* reset has just been applied in a frame whose cooldown is still running: the
\* toggle of the previous frame was accepted, this frame's toggle was not
C4_Witness ==
    /\ pc = "lift"
    /\ "F1" \in keys
    /\ player.flight_timer = flight_cooldown - 16
    /\ player.mode = NORMAL_MODE
    /\ player.lift_force = BASE_LIFT
    /\ ~player.free_flight

\* C5: a Grounded player at rest on flat terrain (on_ground, vertical velocity 0,
\* y = terrain height + stance height) given zero input is still at rest after
\* the tick: vertical velocity 0 and y = terrain height + stance height.
C5_RestIsStableOnFlatTerrain ==
    [][(/\ pc = "move"
        /\ world = "flat"
        /\ player.mode = NORMAL_MODE
        /\ keys = {}
        /\ player.on_ground
        /\ player.vel[2] = 0
        /\ player.pos[2] = PLAYER_HEIGHT)
         => (player'.on_ground /\ player'.vel[2] = 0 /\ player'.pos[2] = PLAYER_HEIGHT)]_vars

----------------------------------------------------------------------------
(* Properties of the height field (specification TerrainSpec) *)

\* C6: for a fixed smoothing flag and block size the value get_height returns
\* depends only on (x, z): it is the value a height field with the same
\* parameters and no earlier queries returns.
C6_HeightIndependentOfHistory ==
    call[1] = "get_height"
        => ret = get_height(NewTerrain(terrain.smooth), call[2], call[3]).h

\* C7: every operation that changes the smoothing flag or the block size clears
\* the memoized heights entirely and leaves the active area as it is.
C7_ParameterChangeClearsMemo ==
    [][(terrain'.smooth # terrain.smooth \/ terrain'.block_size # terrain.block_size)
         => /\ terrain'.vertices = EmptyMap
            /\ terrain'.erosion_cache = EmptyMap
            /\ terrain'.generated_area = terrain.generated_area]_vars

CellRange == (-2)..2

EdgeOffsets == {0, 125, 250, 375, 500}

Memoized(i, j) == \A n \in 1..4 : Corners(i, j)[n] \in DOMAIN terrain.vertices

PointsOf(i, j) == [n \in 1..4 |-> terrain.vertices[Corners(i, j)[n]]]

\* C8: in smooth mode the blend of a cell at fractional offset 1 equals the blend
\* of the neighbouring cell at fractional offset 0, along x and along z.
C8_ContinuousAcrossCellBoundaries ==
    terrain.smooth =>
        \A i \in CellRange, j \in CellRange, f \in EdgeOffsets :
            LET c == CellXU(terrain)
            IN  /\ (Memoized(i, j) /\ Memoized(i + 1, j))
                     => Blend(PointsOf(i, j), c, f, c) = Blend(PointsOf(i + 1, j), 0, f, c)
                /\ (Memoized(i, j) /\ Memoized(i, j + 1))
                     => Blend(PointsOf(i, j), f, c, c) = Blend(PointsOf(i, j + 1), f, 0, c)

\* the blend as the documentation states it: h10 is the value of (x0+1, z0) and
\* is weighted by dx*(1-dz), h01 is the value of (x0, z0+1), weighted by (1-dx)*dz
StatedBlend(h00, h10, h01, h11, fx, fz, c) ==
    LET q == c * c
    IN  (h00 \div q) * (c - fx) * (c - fz)
      + (h10 \div q) * fx * (c - fz)
      + (h01 \div q) * (c - fx) * fz
      + (h11 \div q) * fx * fz

\* C9: a smooth sample computed for a point of the cell with lower corner (x0, z0)
\* and offsets (dx, dz) is h00(1-dx)(1-dz) + h10 dx(1-dz) + h01 (1-dx)dz + h11 dx dz
\* over the memoized values of (x0,z0), (x0+1,z0), (x0,z0+1), (x0+1,z0+1).
C9_SampleIsStatedBilinearBlend ==
    (call[1] = "get_height" /\ terrain.smooth /\ ~call[4])
        => LET c  == CellXU(terrain)
               x0 == Trunc(call[2], c)
               z0 == Trunc(call[3], c)
               v  == terrain.vertices
           IN  ret = StatedBlend(v[<<x0, z0>>], v[<<x0 + 1, z0>>], v[<<x0, z0 + 1>>],
                                 v[<<x0 + 1, z0 + 1>>],
                                 call[2] - x0 * c, call[3] - z0 * c, c)

\* C10: in smooth mode, after any earlier queries, a sample exactly at lattice
\* corner (i, j) returns the raw noise-derived value of lattice point (i, j).
C10_CornerSampleIsRawValue ==
    (/\ call[1] = "get_height"
     /\ terrain.smooth
     /\ call[2] % CellXU(terrain) = 0
     /\ call[3] % CellXU(terrain) = 0)
        => ret = VertexValue(terrain, call[2] \div CellXU(terrain), call[3] \div CellXU(terrain))

----------------------------------------------------------------------------
(* The Player interface driven directly: whole update_movement ticks and     *)
(* check_movement calls, from the state the session constructs               *)

\* Player.update_movement: the steps of one tick in the order of the code
update_movement(p, t, d, k, m) ==
    With(LiftControls(ResetControl(ModeControls(TimerAndLook(p, d, m), k), k), k), LAMBDA p1 :
    With(IF p1.mode = NORMAL_MODE THEN update_normal_movement(p1, t, d, k)
         ELSE IF p1.mode = FLIGHT_MODE THEN update_flight_movement(p1, t, d, k)
         ELSE update_free_flight_movement(p1, t, d, k), LAMBDA r :
        [p |-> [r.p EXCEPT !.current_terrain_type =
                              get_terrain_type(r.t, r.p.pos[1], r.p.pos[3])],
         t |-> r.t]))

\* keys held, tick length (ms) and mouse motion of the ticks applied
TickInputs ==
    { [k |-> {},               d |-> 16,  m |-> <<0, 0>>],
      [k |-> {},               d |-> 500, m |-> <<0, 0>>],
      [k |-> {"TAB"},          d |-> 16,  m |-> <<0, 0>>],
      [k |-> {"TAB"},          d |-> 500, m |-> <<0, 0>>],
      [k |-> {"TAB", "LCTRL"}, d |-> 16,  m |-> <<0, 0>>],
      [k |-> {"TAB", "SPACE"}, d |-> 16,  m |-> <<0, 0>>],
      [k |-> {"F1"},           d |-> 16,  m |-> <<0, 0>>],
      [k |-> {"LALT"},         d |-> 16,  m |-> <<0, 0>>],
      [k |-> {"LCTRL"},        d |-> 500, m |-> <<0, 0>>],
      [k |-> {"LSHIFT"},       d |-> 16,  m |-> <<0, 0>>],
      [k |-> {"SPACE"},        d |-> 16,  m |-> <<0, 0>>],
      [k |-> {"w"},            d |-> 16,  m |-> <<0, 0>>],
      [k |-> {"w"},            d |-> 100, m |-> <<600, 0>>],
      [k |-> {"w", "s"},       d |-> 16,  m |-> <<0, 0>>] }

\* candidate displacements (dx, dz) handed to check_movement
Displacements ==
    { <<36, 0>>, <<-250, 175>>, <<-300, 125>>, <<499, 250>>, <<-505, 250>>,
      <<-475, -300>>, <<0, 450>> }

PlayerTick(in) ==
    /\ ncalls < MaxCalls
    /\ \E r \in {update_movement(player, terrain, in.d, in.k, in.m)} :
          player' = r.p /\ terrain' = r.t
    /\ call' = <<"update_movement", in.k, in.d, in.m>>
    /\ ncalls' = ncalls + 1
    /\ UNCHANGED <<ui_state, SMOOTH_TERRAIN, TERRAIN_DETAIL, SEED, world,
                   pc, keys, dt, mouse_rel, frames, ret>>

PlayerCheckMovement(dx, dz) ==
    /\ ncalls < MaxCalls
    /\ \E r \in {check_movement(player, terrain, dx, dz)} :
          /\ player' = r.p
          /\ terrain' = r.t
          /\ ret' = IF r.ok THEN 1 ELSE 0
    /\ call' = <<"check_movement", dx, dz>>
    /\ ncalls' = ncalls + 1
    /\ UNCHANGED <<ui_state, SMOOTH_TERRAIN, TERRAIN_DETAIL, SEED, world,
                   pc, keys, dt, mouse_rel, frames>>

PlayerNext ==
    \/ \E in \in TickInputs : PlayerTick(in)
    \/ \E q \in Displacements : PlayerCheckMovement(q[1], q[2])

PlayerSpec == Init /\ [][PlayerNext]_vars

----------------------------------------------------------------------------
(* Properties of the collision policy (specification PlayerSpec) *)

\* what check_movement reads for a candidate displacement: the height difference
\* between target and current position, whether the slope at the target exceeds
\* MAX_CLIMB_ANGLE, and the slope value the blocked reason carries
CandidateCase(p, t, dx, dz) ==
    With(get_height(t, p.pos[1], p.pos[3]), LAMBDA cur :
    With(get_height(cur.t, p.pos[1] + dx, p.pos[3] + dz), LAMBDA tgt :
    With(get_slope_angle(tgt.t, p.pos[1] + dx, p.pos[3] + dz), LAMBDA sl :
        [hd    |-> tgt.h - cur.h,
         steep |-> ~SlopeWalkable(sl.dx, sl.dz),
         rise2 |-> SlopeRise2(sl.dx, sl.dz)])))

\* C11: a candidate move to a higher target whose slope exceeds the climb angle but
\* with 0 < heightDiff <= STEP_HEIGHT is allowed through the step-up branch: the
\* reason recorded is "Stepped up" and pos y is raised by exactly heightDiff.
C11_StepUpBranchTaken ==
    [][call'[1] = "check_movement"
         => LET c == CandidateCase(player, terrain, call'[2], call'[3])
            IN  (c.steep /\ 0 < c.hd /\ c.hd <= STEP_HEIGHT)
                  => /\ ret' = 1
                     /\ player'.last_collision = <<"Stepped up">>
                     /\ player'.pos[2] = player.pos[2] + c.hd]_vars

\* C12: check_movement allows a candidate displacement exactly when heightDiff <= 0,
\* or the slope at the target is within the climb angle, or 0 < heightDiff <=
\* STEP_HEIGHT, or the player is airborne and |heightDiff| < MAX_JUMP_HEIGHT.
C12_AllowedIffSomeBranch ==
    [][call'[1] = "check_movement"
         => LET c == CandidateCase(player, terrain, call'[2], call'[3])
            IN  (ret' = 1) <=> \/ c.hd <= 0
                               \/ ~c.steep
                               \/ (0 < c.hd /\ c.hd <= STEP_HEIGHT)
                               \/ (~player.on_ground /\ Abs(c.hd) < MAX_JUMP_HEIGHT)]_vars

\* a grounded player has just been allowed a move that descends by more than
\* STEP_HEIGHT onto a slope steeper than the climb angle
C12_Witness ==
    /\ call[1] = "check_movement"
    /\ ret = 1
    /\ player.on_ground
    /\ LET c == CandidateCase(player, terrain, call[2], call[3])
       IN  c.hd < -STEP_HEIGHT /\ c.steep

\* the player after the mode, reset and lift controls of a tick, as the movement
\* update of the tick receives it
AfterControls(p, d, k, m) ==
    LiftControls(ResetControl(ModeControls(TimerAndLook(p, d, m), k), k), k)

\* the displacement a Grounded tick hands to check_movement (<<0, 0>>: none)
WantedMove(p, d, k) ==
    With(MoveDir(p, k), LAMBDA md :
    With(Isqrt(md[1] * md[1] + md[2] * md[2]), LAMBDA length :
         IF length > 0
         THEN <<Displace(md[1], length, PLAYER_SPEED, d), Displace(md[2], length, PLAYER_SPEED, d)>>
         ELSE <<0, 0>>))

\* no branch of check_movement matches the candidate displacement
NoBranchMatches(p, c) ==
    /\ c.hd > STEP_HEIGHT
    /\ c.steep
    /\ (p.on_ground \/ Abs(c.hd) >= MAX_JUMP_HEIGHT)

\* C13: a Grounded tick whose candidate move matches no collision branch leaves
\* the player's x and z as they were at the start of the tick, and the reason
\* recorded is the blocked reason with the slope at the target.
C13_BlockedMoveDoesNotSlide ==
    [][call'[1] = "update_movement"
         => LET p1 == AfterControls(player, call'[3], call'[2], call'[4])
                w  == WantedMove(p1, call'[3], call'[2])
                c  == CandidateCase(p1, terrain, w[1], w[2])
            IN  (p1.mode = NORMAL_MODE /\ w # <<0, 0>> /\ NoBranchMatches(p1, c))
                  => /\ player'.pos[1] = player.pos[1]
                     /\ player'.pos[3] = player.pos[3]
                     /\ player'.last_collision = <<"Blocked by slope", c.rise2>>]_vars

\* a Grounded tick with a move command has just been refused: the player is on
\* the ground and the target is more than STEP_HEIGHT higher on a steep slope
C13_Witness ==
    /\ call[1] = "update_movement"
    /\ "w" \in call[2]
    /\ player.mode = NORMAL_MODE
    /\ player.on_ground
    /\ player.last_collision[1] = "Blocked by slope"
    /\ LET w == WantedMove(player, call[3], call[2])
           c == CandidateCase(player, terrain, w[1], w[2])
       IN  c.hd > STEP_HEIGHT /\ c.steep

----------------------------------------------------------------------------
(* The controller commands of the Player driven directly, with idle ticks    *)

Commands ==
    { "increase_lift", "decrease_lift", "set_hover_lift", "toggle_max_lift",
      "toggle_flight_mode", "toggle_free_flight", "reset_flight" }

ApplyCommand(c, p) ==
    CASE c = "increase_lift"      -> increase_lift(p)
      [] c = "decrease_lift"      -> decrease_lift(p)
      [] c = "set_hover_lift"     -> set_hover_lift(p)
      [] c = "toggle_max_lift"    -> toggle_max_lift(p)
      [] c = "toggle_flight_mode" -> toggle_flight_mode(p)
      [] c = "toggle_free_flight" -> toggle_free_flight(p)
      [] c = "reset_flight"       -> reset_flight(p)

\* one command; call records the lift force the command found
PlayerCommand(c) ==
    /\ ncalls < MaxCmds
    /\ player' = ApplyCommand(c, player)
    /\ call' = <<c, player.lift_force>>
    /\ ncalls' = ncalls + 1
    /\ UNCHANGED <<terrain, ui_state, SMOOTH_TERRAIN, TERRAIN_DETAIL, SEED, world,
                   pc, keys, dt, mouse_rel, frames, ret>>

\* a 16 ms tick with no key held
IdleTick ==
    /\ ncalls < MaxCmds
    /\ \E r \in {update_movement(player, terrain, 16, {}, <<0, 0>>)} :
          player' = r.p /\ terrain' = r.t
    /\ call' = <<"update_movement", player.lift_force>>
    /\ ncalls' = ncalls + 1
    /\ UNCHANGED <<ui_state, SMOOTH_TERRAIN, TERRAIN_DETAIL, SEED, world,
                   pc, keys, dt, mouse_rel, frames, ret>>

CommandNext ==
    \/ \E c \in Commands : PlayerCommand(c)
    \/ IdleTick

CommandSpec == Init /\ [][CommandNext]_vars

----------------------------------------------------------------------------
(* Properties of the lift controls *)

\* C14: after any sequence of ticks and controller commands 0 <= lift_force <=
\* MAX_LIFT; an increase at MAX_LIFT and a decrease at 0 leave lift_force unchanged.
C14_LiftStaysInRange ==
    /\ [](0 <= player.lift_force /\ player.lift_force <= MAX_LIFT)
    /\ [][/\ (call'[1] = "increase_lift" /\ player.lift_force = MAX_LIFT)
               => player'.lift_force = MAX_LIFT
          /\ (call'[1] = "decrease_lift" /\ player.lift_force = 0)
               => player'.lift_force = 0]_vars

\* a decrease has just been applied to a lift force of 0, after an increase was
\* applied at MAX_LIFT or not
C14_Witness ==
    /\ call = <<"decrease_lift", 0>>
    /\ player.lift_force = 0

\* C15: two max-lift toggles in succession, with no other command in between,
\* restore lift_force and the max-lift flag to their values before the first.
C15_MaxLiftToggleTwiceRestores ==
    [][(call[1] = "toggle_max_lift" /\ call'[1] = "toggle_max_lift")
         => /\ player'.lift_force = call[2]
            /\ player'.max_lift_active = ~player.max_lift_active]_vars

----------------------------------------------------------------------------
(* Properties of the Flight and FreeFlight ticks (specification PlayerSpec) *)

\* the tick runs the Flight movement update with the lift force cancelling
\* gravity and neither ascend nor descend held
HoverTick(p1, k) ==
    /\ p1.mode = FLIGHT_MODE
    /\ p1.lift_force = GRAVITY * 1000
    /\ "SPACE" \notin k
    /\ "LSHIFT" \notin k

\* C16 as stated: the hover command sets lift_force to exactly the gravity
\* constant, and a Flight tick with that lift force and neither ascend nor descend
\* held leaves the vertical velocity unchanged.
C16_HoverTickKeepsVerticalVelocity ==
    [][call'[1] = "update_movement"
         => LET k  == call'[2]
                p1 == AfterControls(player, call'[3], k, call'[4])
            IN  /\ ("LCTRL" \in k /\ "TAB" \notin k) => player'.lift_force = GRAVITY * 1000
                /\ HoverTick(p1, k) => player'.vel[2] = p1.vel[2]]_vars

\* C16 amended: the hover command sets lift_force to exactly the gravity constant;
\* a Flight tick with that lift force and neither ascend nor descend held leaves
\* the vertical velocity unchanged and moves y by velocity * dt, unless the tick
\* ends on the ground clamp, which sets the vertical velocity to 0.
C16_HoverTickKeepsVelocityUnlessClamped ==
    [][call'[1] = "update_movement"
         => LET k  == call'[2]
                p1 == AfterControls(player, call'[3], k, call'[4])
            IN  /\ ("LCTRL" \in k /\ "TAB" \notin k) => player'.lift_force = GRAVITY * 1000
                /\ HoverTick(p1, k)
                     => IF player'.on_ground
                        THEN player'.vel[2] = 0
                        ELSE /\ player'.vel[2] = p1.vel[2]
                             /\ player'.pos[2] = p1.pos[2] + p1.vel[2] * call'[3]]_vars

\* a Flight tick with the hover command held has just ended above the ground
C16_Witness ==
    /\ call[1] = "update_movement"
    /\ call[2] = {"LCTRL"}
    /\ player.mode = FLIGHT_MODE
    /\ player.lift_force = GRAVITY * 1000
    /\ ~player.on_ground

\* C17: the mode cooldown flight_timer is >= 0 in every reachable state.
C17_CooldownNeverNegative == player.flight_timer >= 0

\* the height get_height returns at the player's horizontal position
GroundAt(p, t) == get_height(t, p.pos[1], p.pos[3]).h

\* C19: after every Flight tick pos y >= height(x, z) + normal stance height, and
\* the Flight movement update leaves the mode at Flight, also when it touches the
\* ground.
C19_FlightStaysAboveGroundAndInFlight ==
    [][call'[1] = "update_movement"
         => LET p1 == AfterControls(player, call'[3], call'[2], call'[4])
            IN  p1.mode = FLIGHT_MODE
                  => /\ player'.pos[2] >= GroundAt(player', terrain') + PLAYER_HEIGHT
                     /\ player'.mode = FLIGHT_MODE]_vars

\* a descending Flight tick has just been stopped by the ground clamp and the
\* mode is still Flight
C19_Witness ==
    /\ call[1] = "update_movement"
    /\ "LSHIFT" \in call[2]
    /\ player.mode = FLIGHT_MODE
    /\ player.on_ground
    /\ player.vel[2] = 0
    /\ player.pos[2] = GroundAt(player, terrain) + PLAYER_HEIGHT

\* the commands of the tick cancel: none held, or only opposing pairs
NoNetCommand(k) ==
    /\ ("w" \in k) <=> ("s" \in k)
    /\ ("a" \in k) <=> ("d" \in k)
    /\ ("SPACE" \in k) <=> ("LSHIFT" \in k)

\* speed * dt of a FreeFlight tick of d ms, in YU and in XU (rounded up)
FreeFlightReachYU(d) == PLAYER_SPEED * FLIGHT_SPEED_MULTIPLIER * 2 * d * 100

FreeFlightReachXU(d) == (PLAYER_SPEED * FLIGHT_SPEED_MULTIPLIER * 2 * d) \div 2000 + 1

\* C20: a FreeFlight tick applies no gravity and no ground clamp: the velocity is
\* unchanged, on_ground is false afterwards, the position is unchanged when no
\* command or only opposing commands are held, a lone ascend or descend command
\* moves y by exactly speed * dt, and no component moves by more than speed * dt.
C20_FreeFlightTickIsPureTranslation ==
    [][call'[1] = "update_movement"
         => LET k  == call'[2]
                d  == call'[3]
                p1 == AfterControls(player, d, k, call'[4])
            IN  p1.mode = FREE_FLIGHT_MODE
                  => /\ player'.vel = p1.vel
                     /\ ~player'.on_ground
                     /\ NoNetCommand(k) => player'.pos = player.pos
                     /\ (k \cap {"w", "a", "s", "d", "SPACE", "LSHIFT"} = {"LSHIFT"})
                          => player'.pos = <<player.pos[1],
                                             player.pos[2] - FreeFlightReachYU(d),
                                             player.pos[3]>>
                     /\ Abs(player'.pos[1] - player.pos[1]) <= FreeFlightReachXU(d)
                     /\ Abs(player'.pos[2] - player.pos[2]) <= FreeFlightReachYU(d)
                     /\ Abs(player'.pos[3] - player.pos[3]) <= FreeFlightReachXU(d)]_vars

\* a descending FreeFlight tick has just ended below terrain height + stance
\* height, airborne, with the velocity it started with
C20_Witness ==
    /\ call[1] = "update_movement"
    /\ call[2] = {"LSHIFT"}
    /\ player.mode = FREE_FLIGHT_MODE
    /\ ~player.on_ground
    /\ player.pos[2] < GroundAt(player, terrain) + PLAYER_HEIGHT

----------------------------------------------------------------------------
(* Properties of the frame loop *)

\* the stance height of the player: crouched or normal
StanceHeight(p) == IF p.crouching THEN CROUCH_HEIGHT ELSE PLAYER_HEIGHT

\* at the end of every frame of core.py's session a Grounded player that is on
\* the ground has pos y >= height(x, z) + stance height
GroundedAboveTerrain ==
    (pc = "frame" /\ player.mode = NORMAL_MODE /\ player.on_ground)
        => player.pos[2] >= GroundAt(player, terrain) + StanceHeight(player)

----------------------------------------------------------------------------
(* python/core.py: the variant of the program without flight modes, crouching *)
(* and height cache, whose +/- keys change the block size                     *)

\* HEIGHT_SCALE of python/core.py
py_HEIGHT_SCALE == 15

\* the value memoized for lattice point (px, pz): python/core.py:288-292 and 316-320
py_VertexValue(t, px, pz) ==
    Pnoise2(world, NoiseArg(px, t.block_size), NoiseArg(pz, t.block_size)) * py_HEIGHT_SCALE * NoiseToYU

\* the nearest-lattice value of the non-smooth branch: python/core.py:274-278
py_DiscreteValue(x0, z0) ==
    Pnoise2(world, NoiseArg(x0, 10), NoiseArg(z0, 10)) * py_HEIGHT_SCALE * NoiseToYU

py_Memoize(t, verts, c) ==
    IF c \in DOMAIN verts THEN verts ELSE Put(verts, c, py_VertexValue(t, c[1], c[2]))

py_FillCorners(t, x0, z0) ==
    LET cs == Corners(x0, z0)
    IN  With(py_Memoize(t, t.vertices, cs[1]), LAMBDA v1 :
        With(py_Memoize(t, v1, cs[2]), LAMBDA v2 :
        With(py_Memoize(t, v2, cs[3]), LAMBDA v3 :
        py_Memoize(t, v3, cs[4]))))

\* Terrain.generate_area of python/core.py
py_generate_area(t, center_x, center_z) ==
    With(Window(t, center_x, center_z), LAMBDA new_area :
         [n |-> Cardinality(new_area),
          t |-> [t EXCEPT !.vertices = [p \in DOMAIN t.vertices \cup new_area |->
                                           IF p \in DOMAIN t.vertices THEN t.vertices[p]
                                           ELSE py_VertexValue(t, p[1], p[2])],
                          !.generated_area = new_area]])

\* Terrain.get_height's blend for any cell width c: python/core.py:296-299.
\* Heights are weighted in units of 1000 YU, so that a weight of 1 (a = b = c)
\* returns the corner value itself, as the floating-point product does
py_Blend(points, fx, fz, c) ==
    LET W(v, a, b) == (((((v \div 1000) * a) \div c) * b) \div c) * 1000
    IN  W(points[1], c - fx, c - fz) + W(points[2], fx, c - fz)
      + W(points[3], c - fx, fz) + W(points[4], fx, fz)

\* Terrain.get_height of python/core.py: no cache of returned heights
py_get_height(t, x, z) ==
    LET c  == CellXU(t)
        x0 == Trunc(x, c)
        z0 == Trunc(z, c)
    IN  IF ~t.smooth
        THEN [h |-> py_DiscreteValue(x0, z0), t |-> t]
        ELSE With(py_FillCorners(t, x0, z0), LAMBDA verts :
             With([i \in 1..4 |-> verts[Corners(x0, z0)[i]]], LAMBDA points :
                  [h |-> py_Blend(points, x - x0 * c, z - z0 * c, c),
                   t |-> [t EXCEPT !.vertices = verts]]))

\* the offset 0.1 m of the central difference of python/core.py:302-303, in XU
py_EPS == 50

\* Terrain.get_slope_angle of python/core.py
py_get_slope_angle(t, x, z) ==
    With(py_get_height(t, x + py_EPS, z), LAMBDA a :
    With(py_get_height(a.t, x - py_EPS, z), LAMBDA b :
    With(py_get_height(b.t, x, z + py_EPS), LAMBDA c :
    With(py_get_height(c.t, x, z - py_EPS), LAMBDA d :
         [dx |-> a.h - b.h, dz |-> c.h - d.h, t |-> d.t]))))

\* the run 0.2 m of that central difference, in YU
py_SlopeRun == 20000000

\* degrees(atan2(sqrt(dx^2 + dz^2), 0.2)) <= MAX_CLIMB_ANGLE
py_SlopeWalkable(dx, dz) ==
    /\ Abs(dx) <= py_SlopeRun
    /\ Abs(dz) <= py_SlopeRun
    /\ (dx \div 1000) * (dx \div 1000) + (dz \div 1000) * (dz \div 1000)
         <= (py_SlopeRun \div 1000) * (py_SlopeRun \div 1000)

\* Player.__init__ of python/core.py
py_NewPlayer(t) ==
    With(py_get_height(t, 0, 0), LAMBDA g :
         [p |-> [NewPlayer(t).p EXCEPT !.pos = <<0, g.h + PLAYER_HEIGHT, 0>>],
          t |-> g.t])

\* Player.can_walk_over / can_step_up / can_jump_over / check_movement of python/core.py
py_check_movement(p, t, dx, dz) ==
    With(py_get_height(t, p.pos[1], p.pos[3]), LAMBDA cur :
    With(py_get_height(cur.t, p.pos[1] + dx, p.pos[3] + dz), LAMBDA tgt :
    With(py_get_slope_angle(tgt.t, p.pos[1] + dx, p.pos[3] + dz), LAMBDA sl :
        LET height_diff == tgt.h - cur.h
            can_walk_over == \/ height_diff < 0
                             \/ py_SlopeWalkable(sl.dx, sl.dz)
                             \/ Abs(height_diff) <= STEP_HEIGHT
            can_step_up   == 0 < height_diff /\ height_diff <= STEP_HEIGHT
            can_jump_over == Abs(height_diff) < MAX_JUMP_HEIGHT
        IN  IF can_walk_over
            THEN [ok |-> TRUE,
                  p  |-> [p EXCEPT !.last_collision = <<"Walkable slope">>],
                  t  |-> IF height_diff < 0 THEN tgt.t ELSE sl.t]
            ELSE IF can_step_up
            THEN [ok |-> TRUE,
                  p  |-> [p EXCEPT !.last_collision = <<"Stepped up">>,
                                   !.pos = <<p.pos[1], p.pos[2] + (tgt.h - cur.h), p.pos[3]>>],
                  t  |-> sl.t]
            ELSE IF can_jump_over /\ ~p.on_ground
            THEN [ok |-> TRUE,
                  p  |-> [p EXCEPT !.last_collision = <<"Jumpable obstacle">>],
                  t  |-> sl.t]
            ELSE [ok |-> FALSE,
                  p  |-> [p EXCEPT !.last_collision =
                                     <<"Blocked by slope", SlopeRise2(sl.dx, sl.dz)>>],
                  t  |-> sl.t])))

\* Player.update_movement of python/core.py
py_update_movement(p, t, d, k) ==
    With(MoveDir(p, k), LAMBDA md :
    With(Isqrt(md[1] * md[1] + md[2] * md[2]), LAMBDA length :
    With(IF length > 0
         THEN <<Displace(md[1], length, PLAYER_SPEED, d),
                Displace(md[2], length, PLAYER_SPEED, d)>>
         ELSE <<0, 0>>, LAMBDA want :
    With(IF length > 0 THEN py_check_movement(p, t, want[1], want[2])
         ELSE [ok |-> TRUE, p |-> p, t |-> t], LAMBDA chk :
    With(IF chk.ok THEN want ELSE <<0, 0>>, LAMBDA move :
    With(chk.p.vel[2] - GRAVITY * d, LAMBDA vy :
    With([chk.p EXCEPT !.vel = <<chk.p.vel[1], vy, chk.p.vel[3]>>,
                       !.pos = <<chk.p.pos[1] + move[1] + chk.p.vel[1] * d,
                                 chk.p.pos[2] + vy * d,
                                 chk.p.pos[3] + move[2] + chk.p.vel[3] * d>>], LAMBDA p1 :
    With(py_get_height(chk.t, p1.pos[1], p1.pos[3]), LAMBDA th :
    With(IF p1.pos[2] < th.h + PLAYER_HEIGHT
         THEN [p1 EXCEPT !.pos = <<p1.pos[1], th.h + PLAYER_HEIGHT, p1.pos[3]>>,
                         !.vel = <<p1.vel[1], 0, p1.vel[3]>>,
                         !.on_ground = TRUE]
         ELSE p1, LAMBDA p2 :
        [p |-> IF "SPACE" \in k /\ p2.on_ground
               THEN [p2 EXCEPT !.vel = <<p2.vel[1], JUMP_FORCE, p2.vel[3]>>,
                               !.on_ground = FALSE]
               ELSE p2,
         t |-> th.t])))))))))

\* main of python/core.py up to the loop: python/core.py:497-498; the module
\* starts with SMOOTH_TERRAIN = False (python/core.py:24)
py_Init ==
    /\ SEED \in Seeds
    /\ world \in Worlds
    /\ SMOOTH_TERRAIN = FALSE
    /\ TERRAIN_DETAIL = 10
    /\ \E np \in {py_NewPlayer(NewTerrain(FALSE))} : player = np.p /\ terrain = np.t
    /\ ui_state = "title"
    /\ pc = "frame"
    /\ keys = NoInput.k
    /\ dt = NoInput.d
    /\ mouse_rel = NoInput.m
    /\ frames = 0
    /\ call = <<"init">>
    /\ ret = 0
    /\ ncalls = 0

\* the event of a frame the loop reacts to, by the key or the button clicked
py_Events == {"none", "K_ESCAPE", "K_F6", "K_PLUS", "K_MINUS", "start", "continue", "menu"}

\* the event can occur in the ui state (K_ESCAPE on the title screen ends the loop)
py_EventEnabled(ev, ui) ==
    CASE ev = "K_ESCAPE" -> ui \in {"game", "pause"}
      [] ev = "start"    -> ui = "title"
      [] ev \in {"continue", "menu"} -> ui = "pause"
      [] OTHER -> TRUE

\* the event handlers of main: python/core.py:511-599
py_HandleEvent(ev, ui, t) ==
    CASE ev = "K_ESCAPE" -> [ui |-> IF ui = "game" THEN "pause" ELSE "game", t |-> t]
      [] ev = "K_F6"     -> [ui |-> ui, t |-> [t EXCEPT !.smooth = ~t.smooth, !.vertices = EmptyMap]]
      [] ev = "K_PLUS"   -> [ui |-> ui,
                             t  |-> [t EXCEPT !.block_size = Min(20, t.block_size + 1),
                                              !.vertices = EmptyMap]]
      [] ev = "K_MINUS"  -> [ui |-> ui,
                             t  |-> [t EXCEPT !.block_size = Max(1, t.block_size - 1),
                                              !.vertices = EmptyMap]]
      [] ev = "menu"     -> [ui |-> "title", t |-> t]
      [] ev \in {"start", "continue"} -> [ui |-> "game", t |-> t]
      [] OTHER -> [ui |-> ui, t |-> t]

\* keys held, frame time (ms) and mouse motion of a frame in the game state
py_FrameInputs ==
    { [k |-> {},        d |-> 16, m |-> <<0, 0>>],
      [k |-> {"w"},     d |-> 16, m |-> <<0, 0>>],
      [k |-> {"w"},     d |-> 100, m |-> <<600, 0>>],
      [k |-> {"SPACE"}, d |-> 16, m |-> <<0, 0>>] }

\* the game-state update of a frame: python/core.py:602-608
py_GameUpdate(p, t, in) ==
    py_update_movement([p EXCEPT !.yaw = p.yaw + in.m[1] * 15,
                                 !.pitch = Max(-8900, Min(8900, p.pitch - in.m[2] * 15))],
                       t, in.d, in.k)

\* one iteration of the loop of main: the event, the game-state update, then
\* generate_area and the slope query for the debug overlay
py_Frame(ev, in) ==
    /\ frames < MaxPyFrames
    /\ py_EventEnabled(ev, ui_state)
    /\ \E e \in {py_HandleEvent(ev, ui_state, terrain)} :
          /\ in \in (IF e.ui = "game" THEN py_FrameInputs ELSE {NoInput})
          /\ \E r \in {IF e.ui = "game" THEN py_GameUpdate(player, e.t, in)
                       ELSE [p |-> player, t |-> e.t]} :
                \E g \in {py_generate_area(r.t, r.p.pos[1], r.p.pos[3])} :
                   \E s \in {py_get_slope_angle(g.t, r.p.pos[1], r.p.pos[3])} :
                      /\ player' = r.p
                      /\ terrain' = s.t
                      /\ ui_state' = e.ui
                      /\ SMOOTH_TERRAIN' = e.t.smooth
    /\ frames' = frames + 1
    /\ call' = <<"frame", ev, in.k>>
    /\ UNCHANGED <<TERRAIN_DETAIL, SEED, world, pc, keys, dt, mouse_rel, ret, ncalls>>

py_Next == \E ev \in py_Events, in \in py_FrameInputs \cup {NoInput} : py_Frame(ev, in)

PySpec == py_Init /\ [][py_Next]_vars

\* C18: at the end of every frame, whenever the player is Grounded and on_ground,
\* pos y >= height(x, z) + stance height, also after frames that processed a
\* block-size or smoothing change while the session was paused.
C18_GroundedPlayerAboveTerrain ==
    player.on_ground
        => player.pos[2] >= py_get_height(terrain, player.pos[1], player.pos[3]).h + PLAYER_HEIGHT

----------------------------------------------------------------------------
(* Terrain classification (specification TerrainSpec) *)

\* the seven bands as stated: label, lower bound (inclusive), upper bound (exclusive)
Bands ==
    << <<"BASIN", 0, 1500>>, <<"PLAINS", 1500, 3000>>, <<"HILLS", 3000, 4500>>,
       <<"VALLEY", 4500, 6000>>, <<"PLATEAU", 6000, 7500>>, <<"MOUNTAINS", 7500, 9000>>,
       <<"CANYON", 9000, 10001>> >>

\* C21: get_terrain_type returns exactly one of the seven labels, and it is the label of the one band [lo, hi) that holds the normalised score; the bands are contiguous and ascending over [0, 1].
C21_LabelIsTheBandOfTheScore ==
    [][call'[1] = "get_terrain_type" =>
         LET s == normalized_score(terrain, call'[2], call'[3])
         IN  /\ 0 <= s /\ s <= 10000
             /\ Cardinality({b \in 1..7 : Bands[b][1] = ret'}) = 1
             /\ \A b \in 1..7 : (Bands[b][2] <= s /\ s < Bands[b][3]) <=> ret' = Bands[b][1]
             /\ \A b \in 1..6 : Bands[b][3] = Bands[b + 1][2]]_vars

C21_Witness ==
    /\ call[1] = "get_terrain_type"
    /\ normalized_score(terrain, call[2], call[3]) = 9000
    /\ ret = "CANYON"

----------------------------------------------------------------------------
(* The active area (specification TerrainSpec) *)

\* the lattice points within Chebyshev distance r of (ci, cj)
SquareAround(ci, cj, r) ==
    {q \in ((ci - r - 1)..(ci + r + 1)) \X ((cj - r - 1)..(cj + r + 1)) :
        Abs(q[1] - ci) <= r /\ Abs(q[2] - cj) <= r}

\* C22: generate_area(cx, cz) replaces generated_area with exactly the lattice points within radius r of (trunc(cx / block_size), trunc(cz / block_size)) and returns (2r + 1)^2; no point of the previous area outside that window stays active.
C22_AreaIsExactlyTheWindow ==
    [][call'[1] = "generate_area" =>
         LET r  == Trunc(LOAD_RADIUS * 10, terrain.block_size)
             ci == Trunc(call'[2], CellXU(terrain))
             cj == Trunc(call'[3], CellXU(terrain))
         IN  /\ terrain'.generated_area = SquareAround(ci, cj, r)
             /\ ret' = (2 * r + 1) * (2 * r + 1)
             /\ \A q \in terrain.generated_area :
                    (Abs(q[1] - ci) > r \/ Abs(q[2] - cj) > r) => q \notin terrain'.generated_area]_vars

\* a call whose window excludes a lattice point that an earlier call generated
C22_Witness ==
    /\ call = <<"generate_area", -250, 600>>
    /\ <<-LOAD_RADIUS, -LOAD_RADIUS>> \in DOMAIN terrain.vertices
    /\ <<-LOAD_RADIUS, -LOAD_RADIUS>> \notin terrain.generated_area
    /\ <<-LOAD_RADIUS, 1 + LOAD_RADIUS>> \in terrain.generated_area

----------------------------------------------------------------------------
(* Lattice heights and sampled heights (specification PySpec) *)

\* C23: for every lattice point of the generated area, in every block size and both smoothing modes, the value generate_area memoized equals the height get_height returns at the lattice point's world coordinate.
C23_LatticeValueEqualsSampledHeight ==
    \A q \in terrain.generated_area :
        terrain.vertices[q]
            = py_get_height(terrain, q[1] * CellXU(terrain), q[2] * CellXU(terrain)).h

----------------------------------------------------------------------------
(* Slope of constant terrain (specification TerrainSpec) *)

\* the heights get_height returns at the four sample points of the slope at (x, z)
SlopeSamples(t, x, z) ==
    { get_height(t, x + EPS, z).h, get_height(t, x - EPS, z).h,
      get_height(t, x, z + EPS).h, get_height(t, x, z - EPS).h }

\* C24: when the height is the same at the four sample points (x +- eps, z) and (x, z +- eps), get_slope_angle computes both differences as 0, that is an angle of exactly 0 degrees.
C24_ConstantHeightGivesZeroSlope ==
    [][(call'[1] = "get_slope_angle"
          /\ Cardinality(SlopeSamples(terrain, call'[2], call'[3])) = 1)
         => ret' = <<0, 0>>]_vars

\* a slope query inside a cell of non-smooth hilly terrain whose height is not 0
C24_Witness ==
    /\ call[1] = "get_slope_angle"
    /\ world = "hills"
    /\ Cardinality(SlopeSamples(terrain, call[2], call[3])) = 1
    /\ SlopeSamples(terrain, call[2], call[3]) # {0}
    /\ ret = <<0, 0>>

----------------------------------------------------------------------------
(* python/Tsin/core.py: the engine packaged as classes. TerrainConstants has   *)
(* the values of python/core.py's module constants, and TerrainGenerator.      *)
(* get_height / get_slope_angle and PlayerController are the code of           *)
(* python/core.py's Terrain and Player reading them; generate_area is defined  *)
(* inside get_slope_angle, after its return, so TerrainGenerator has no such   *)
(* attribute.                                                                  *)

\* the exceptions a frame can end with, as values of pc
Faults == {"AttributeError"}

\* TerrainEngine.__init__: python/Tsin/core.py:574-583
eng_Init == py_Init

\* key presses and clicks on the upper (start / continue) and lower (menu) button
eng_Events == {"K_ESCAPE", "K_F6", "K_PLUS", "K_MINUS", "start", "continue", "menu"}

\* handle_keydown and handle_mouse_click: python/Tsin/core.py:640-749.
\* The lower button of the title screen (exit) is not pressed.
eng_HandleEvent(ev, e) ==
    CASE ev = "K_ESCAPE" -> [e EXCEPT !.ui = CASE e.ui = "game" -> "pause"
                                              [] e.ui = "pause" -> "game"
                                              [] OTHER -> e.ui]
      [] ev = "K_F6"     -> [e EXCEPT !.t = [e.t EXCEPT !.smooth = ~e.t.smooth,
                                                        !.vertices = EmptyMap]]
      [] ev = "K_PLUS"   -> [e EXCEPT !.t = [e.t EXCEPT !.block_size = Max(1, Min(20, e.t.block_size + 1)),
                                                        !.vertices = EmptyMap]]
      [] ev = "K_MINUS"  -> [e EXCEPT !.t = [e.t EXCEPT !.block_size = Max(1, Min(20, e.t.block_size - 1)),
                                                        !.vertices = EmptyMap]]
      [] ev = "start"    -> [e EXCEPT !.ui = "game", !.ok = e.ok /\ e.ui = "title"]
      [] ev = "continue" -> [e EXCEPT !.ui = "game", !.ok = e.ok /\ e.ui = "pause"]
      [] ev = "menu"     -> [e EXCEPT !.ui = "title", !.ok = e.ok /\ e.ui = "pause"]

\* handle_events: the queued events in order; ok tells that each click hit a
\* button the screen showed
RECURSIVE eng_HandleAll(_, _)
eng_HandleAll(evs, e) ==
    IF evs = << >> THEN e
    ELSE eng_HandleAll(Tail(evs), eng_HandleEvent(Head(evs), e))

EventQueues == UNION {[1..n -> eng_Events] : n \in 0..MaxEvents}

\* TerrainEngine.run up to the call of update: handle_events
eng_HandleEvents(evs) ==
    /\ pc = "frame"
    /\ \E e \in {eng_HandleAll(evs, [ui |-> ui_state, t |-> terrain, ok |-> TRUE])} :
          /\ e.ok
          /\ ui_state' = e.ui
          /\ terrain' = e.t
          /\ SMOOTH_TERRAIN' = e.t.smooth
    /\ pc' = "update"
    /\ frames' = frames + 1
    /\ call' = <<"handle_events", evs>>
    /\ UNCHANGED <<player, TERRAIN_DETAIL, SEED, world, keys, dt, mouse_rel, ret, ncalls>>

\* TerrainEngine.update: the game-state update, then the lookup of
\* self.terrain.generate_area, which raises AttributeError; nothing catches it
\* and run ends
eng_Update(in) ==
    /\ pc = "update"
    /\ in \in (IF ui_state = "game" THEN py_FrameInputs ELSE {NoInput})
    /\ \E r \in {IF ui_state = "game" THEN py_GameUpdate(player, terrain, in)
                  ELSE [p |-> player, t |-> terrain]} :
          /\ player' = r.p
          /\ terrain' = r.t
    /\ pc' = "AttributeError"
    /\ call' = <<"update", in.k, in.d>>
    /\ UNCHANGED <<ui_state, SMOOTH_TERRAIN, TERRAIN_DETAIL, SEED, world, keys, dt,
                   mouse_rel, frames, ret, ncalls>>

eng_Next ==
    \/ \E evs \in EventQueues : eng_HandleEvents(evs)
    \/ \E in \in py_FrameInputs \cup {NoInput} : eng_Update(in)

EngineSpec == eng_Init /\ [][eng_Next]_vars

\* C25: no frame of the engine update (command handling, movement update, slope query, generate_area) ends with a raised error.
C25_NoFrameRaises == pc \notin Faults

----------------------------------------------------------------------------
(* The state accessor of the session object (Tsin.get_player_state) driven    *)
(* between ticks by an external system                                        *)

\* the list object a name of the returned dictionary is bound to: the player's
\* own pos / vel lists, which Player updates in place and never rebinds
Deref(name, p) == IF name = "player.pos" THEN p.pos ELSE p.vel

\* Tsin.get_player_state: position and velocity are the player's list objects
\* themselves, the other entries are values
get_player_state(p) ==
    [position        |-> "player.pos",
     rotation        |-> <<p.yaw, p.pitch>>,
     velocity        |-> "player.vel",
     mode            |-> p.mode,
     lift            |-> p.lift_force,
     on_ground       |-> p.on_ground,
     terrain_type    |-> p.current_terrain_type,
     max_lift_active |-> p.max_lift_active]

\* what a holder of the returned dictionary s reads from it when the player is p
Reading(s, p) ==
    [s EXCEPT !.position = Deref(s.position, p), !.velocity = Deref(s.velocity, p)]

AccGetPlayerState ==
    /\ ncalls < MaxCalls
    /\ ret' = get_player_state(player)
    /\ call' = <<"get_player_state">>
    /\ ncalls' = ncalls + 1
    /\ UNCHANGED <<terrain, player, ui_state, SMOOTH_TERRAIN, TERRAIN_DETAIL, SEED, world,
                   pc, keys, dt, mouse_rel, frames>>

\* values an external system stores into a returned list
StoredValues == {0, 500}

\* the holder of the dictionary just returned executes state[field][i] = v
AccStoreInReturned(field, i, v) ==
    /\ ncalls < MaxCalls
    /\ call[1] = "get_player_state"
    /\ player' = IF ret[field] = "player.pos"
                 THEN [player EXCEPT !.pos[i] = v]
                 ELSE [player EXCEPT !.vel[i] = v]
    /\ call' = <<"store", field, i, v>>
    /\ ncalls' = ncalls + 1
    /\ UNCHANGED <<terrain, ui_state, SMOOTH_TERRAIN, TERRAIN_DETAIL, SEED, world,
                   pc, keys, dt, mouse_rel, frames, ret>>

AccessorNext ==
    \/ AccGetPlayerState
    \/ \E in \in TickInputs : PlayerTick(in)
    \/ \E field \in {"position", "velocity"}, i \in 1..3, v \in StoredValues :
          AccStoreInReturned(field, i, v)

AccessorSpec == Init /\ [][AccessorNext]_vars

\* C26: what get_player_state returned is a snapshot: a tick after the call leaves the position and velocity read from it as they were, and storing into the returned values leaves the player's state as it was.
C26_ReturnedStateIsSnapshot ==
    [][/\ (call[1] = "get_player_state" /\ call'[1] = "update_movement")
            => Reading(ret', player') = Reading(ret, player)
       /\ call'[1] = "store" => player' = player]_vars

----------------------------------------------------------------------------
(* Order of the steps of a frame (specification Spec) *)

\* the mode, lift and cooldown fields the commands of a tick write
CommandState(p) == <<p.mode, p.lift_force, p.free_flight, p.max_lift_active, p.flight_timer>>

\* the movement update of mode p.mode
ModeMovement(p, t, d, k) ==
    IF p.mode = NORMAL_MODE THEN update_normal_movement(p, t, d, k)
    ELSE IF p.mode = FLIGHT_MODE THEN update_flight_movement(p, t, d, k)
    ELSE update_free_flight_movement(p, t, d, k)

\* C27: within a tick the mode and lift commands are applied before the movement update, which runs in the mode they left; the terrain type is then refreshed from the post-move position, and generate_area runs last, so at the end of every frame generated_area is the window around the truncated lattice coordinate of the player's position.
C27_StepsOfATickAreOrdered ==
    /\ [][/\ CommandState(player') # CommandState(player) => pc' \in {"mode", "reset", "lift", "move"}
          /\ player'.pos # player.pos => pc' = "type"
          /\ (pc = "move" /\ pc' # pc)
               => /\ pc' = "type"
                  /\ player' = ModeMovement(player, terrain, dt, keys).p
          /\ player'.current_terrain_type # player.current_terrain_type => pc' = "terrain"
          /\ terrain'.generated_area # terrain.generated_area => pc' = "frame"]_vars
    /\ []((pc = "terrain" /\ ui_state = "game")
            => player.current_terrain_type = get_terrain_type(terrain, player.pos[1], player.pos[3]))
    /\ []((pc = "frame" /\ frames > 0)
            => terrain.generated_area = Window(terrain, player.pos[1], player.pos[3]))

\* the end of a frame whose tick accepted a toggle into Flight and then moved the
\* player upwards in that mode
C27_Witness ==
    /\ pc = "frame"
    /\ frames > 0
    /\ player.mode = FLIGHT_MODE
    /\ player.flight_timer = flight_cooldown
    /\ ~player.on_ground
    /\ terrain.generated_area = Window(terrain, player.pos[1], player.pos[3])

----------------------------------------------------------------------------
(* Ticks with the toggle keys held, with the caller's record of the time since *)
(* the last accepted toggle                                                    *)

\* keys held and tick length (ms) of the ticks applied
CooldownInputs ==
    { [k |-> {"TAB"},          d |-> 16,  m |-> <<0, 0>>],
      [k |-> {"TAB"},          d |-> 250, m |-> <<0, 0>>],
      [k |-> {"TAB"},          d |-> 500, m |-> <<0, 0>>],
      [k |-> {"TAB", "LCTRL"}, d |-> 16,  m |-> <<0, 0>>],
      [k |-> {"TAB", "LCTRL"}, d |-> 250, m |-> <<0, 0>>],
      [k |-> {"TAB", "F1"},    d |-> 250, m |-> <<0, 0>>],
      [k |-> {"F1"},           d |-> 16,  m |-> <<0, 0>>],
      [k |-> {},               d |-> 250, m |-> <<0, 0>>] }

\* the tick's toggle command changes the player: the toggle is accepted
Accepted(p, in) ==
    /\ ToggleKeys(in.k)
    /\ ModeControls(TimerAndLook(p, in.d, in.m), in.k) # TimerAndLook(p, in.d, in.m)

\* one call of update_movement; call records whether the tick accepted a toggle
\* and whether an earlier tick did, ret the sum of dt since the last accepted one
CooldownTick(in) ==
    /\ ncalls < MaxCalls
    /\ \E r \in {update_movement(player, terrain, in.d, in.k, in.m)} :
          player' = r.p /\ terrain' = r.t
    /\ \E acc \in {Accepted(player, in)} :
          /\ ret' = IF acc THEN 0 ELSE ret + in.d
          /\ call' = <<"update_movement", in.k, in.d, acc, Len(call) = 5 /\ (call[4] \/ call[5])>>
    /\ ncalls' = ncalls + 1
    /\ UNCHANGED <<ui_state, SMOOTH_TERRAIN, TERRAIN_DETAIL, SEED, world,
                   pc, keys, dt, mouse_rel, frames>>

CooldownNext == \E in \in CooldownInputs : CooldownTick(in)

CooldownSpec == Init /\ [][CooldownNext]_vars

\* C28: every accepted toggle leaves the cooldown at exactly flight_cooldown, and an accepted toggle that follows an earlier accepted one comes after ticks whose dt sum to at least flight_cooldown, also with the toggle key held on every tick.
C28_AcceptedTogglesAreSpaced ==
    [][/\ call'[4] => player'.flight_timer = flight_cooldown
       /\ (call'[4] /\ call'[5]) => ret + call'[3] >= flight_cooldown]_vars

\* a second toggle accepted exactly one cooldown after the first, the key held throughout
C28_Witness ==
    /\ Len(call) = 5
    /\ call[4]
    /\ call[5]
    /\ "TAB" \in call[2]
    /\ ncalls = 3
    /\ player.flight_timer = flight_cooldown

----------------------------------------------------------------------------
(* The jump-over branch of check_movement (specification PlayerSpec) *)

\* C29: a candidate move that is neither walk-over nor step-up is allowed, with the reason "Jumpable obstacle", exactly when the player is not on the ground and |heightDiff| < MAX_JUMP_HEIGHT; check_movement then leaves the position as it was, and a player on the ground is never allowed through this branch.
C29_JumpOverOnlyWhenAirborne ==
    [][call'[1] = "check_movement"
         => LET c == CandidateCase(player, terrain, call'[2], call'[3])
            IN  /\ (c.hd > STEP_HEIGHT /\ c.steep)
                     => /\ (ret' = 1) <=> (~player.on_ground /\ Abs(c.hd) < MAX_JUMP_HEIGHT)
                        /\ (ret' = 1) <=> (player'.last_collision = <<"Jumpable obstacle">>)
                        /\ player'.pos = player.pos
                /\ player'.last_collision = <<"Jumpable obstacle">>
                     => /\ ~player.on_ground
                        /\ c.hd > STEP_HEIGHT /\ c.steep
                        /\ player'.pos = player.pos]_vars

\* a Grounded player in the air after a jump has just been allowed a move onto a
\* steep target more than STEP_HEIGHT and less than MAX_JUMP_HEIGHT higher
C29_Witness ==
    /\ call[1] = "check_movement"
    /\ ret = 1
    /\ player.mode = NORMAL_MODE
    /\ ~player.on_ground
    /\ player.last_collision = <<"Jumpable obstacle">>

----------------------------------------------------------------------------
(* The memo of lattice values between parameter changes (specification TerrainSpec) *)

\* every entry of memo f is an entry of g with the same value
Extends(g, f) == \A q \in DOMAIN f : q \in DOMAIN g /\ g[q] = f[q]

\* C30: sampling (get_height, get_slope_angle) and generate_area never remove or change an entry of vertices, so the values of lattice points dropped from generated_area stay memoized; only the handlers of a parameter change make the memo smaller.
C30_MemoIsAppendOnly ==
    [][/\ call'[1] \in {"get_height", "get_slope_angle", "generate_area", "get_terrain_type"}
            => /\ Extends(terrain'.vertices, terrain.vertices)
               /\ Extends(terrain'.erosion_cache, terrain.erosion_cache)
       /\ ~Extends(terrain'.vertices, terrain.vertices) => call'[1] \in {"F6", "detail"}]_vars

\* generate_area has just moved the window away from a lattice point that an
\* earlier call generated, and the point's value is still memoized
C30_Witness ==
    /\ call = <<"generate_area", 500, 0>>
    /\ <<-LOAD_RADIUS, 0>> \in DOMAIN terrain.vertices
    /\ <<-LOAD_RADIUS, 0>> \notin terrain.generated_area
    /\ terrain.vertices[<<-LOAD_RADIUS, 0>>] = VertexValue(terrain, -LOAD_RADIUS, 0)

----------------------------------------------------------------------------
(* The active area and the memo at the end of a frame (specification Spec) *)

\* C31: at the end of every frame, after any parameter-change event of the frame and the frame's generate_area call, every coordinate of generated_area has an entry in vertices.
C31_ActiveAreaIsMemoized ==
    pc = "frame" => terrain.generated_area \subseteq DOMAIN terrain.vertices

\* the end of the first frame, in which F6 emptied the memo before generate_area ran
C31_Witness ==
    /\ pc = "frame"
    /\ frames = 1
    /\ ~SMOOTH_TERRAIN
    /\ terrain.generated_area # {}
    /\ terrain.generated_area \subseteq DOMAIN terrain.vertices

----------------------------------------------------------------------------
(* The cell of a smooth sample (specification TerrainSpec) *)

\* the lattice cell (x0, z0) the smooth branch of get_height selects: core.py:382
SelectedCell(t, x, z) == <<Trunc(x, CellXU(t)), Trunc(z, CellXU(t))>>

\* C32: for every query point, negative coordinates included, the cell a smooth sample selects encloses the point, the offsets are in [0, 1) of a cell, and the height returned lies between the smallest and the largest of the four corner values.
C32_SampleInterpolatesEnclosingCell ==
    [][(call'[1] = "get_height" /\ terrain.smooth /\ ~call'[4])
         => LET c    == CellXU(terrain)
                cell == SelectedCell(terrain, call'[2], call'[3])
                fx   == call'[2] - cell[1] * c
                fz   == call'[3] - cell[2] * c
                pts  == {terrain'.vertices[Corners(cell[1], cell[2])[n]] : n \in 1..4}
            IN  /\ 0 <= fx /\ fx < c
                /\ 0 <= fz /\ fz < c
                /\ \E lo \in pts, hi \in pts : lo <= ret' /\ ret' <= hi]_vars

----------------------------------------------------------------------------
(* The collision reason is write-only (specification PlayerSpec) *)

\* the values last_collision takes: core.py:494, 538, 542, 548, 552
Reasons ==
    {<<"None">>, <<"Walkable slope">>, <<"Stepped up">>, <<"Jumpable obstacle">>,
     <<"Blocked by slope", 0>>}

\* the player state other than the recorded reason that movement reads and writes
Control(p) == <<p.pos, p.vel, p.mode, p.lift_force, p.on_ground, p.flight_timer>>

\* C33: whatever collision reason the player starts a tick or a movement check with, the same input leaves the same position, velocity, mode, lift force, on_ground, cooldown and terrain, and the same verdict of the check; so two runs that differ only in the reason agree after every step.
C33_ReasonNeverRead ==
    [][\A r \in Reasons :
         \E q \in {[player EXCEPT !.last_collision = r]} :
            /\ call'[1] = "update_movement"
                 => \E o \in {update_movement(q, terrain, call'[3], call'[2], call'[4])} :
                       Control(o.p) = Control(player') /\ o.t = terrain'
            /\ call'[1] = "check_movement"
                 => \E o \in {check_movement(q, terrain, call'[2], call'[3])} :
                       /\ Control(o.p) = Control(player') /\ o.t = terrain'
                       /\ (IF o.ok THEN 1 ELSE 0) = ret']_vars

\* a tick after which the player carries a blocked reason
C33_Witness ==
    /\ call[1] = "update_movement"
    /\ ncalls >= 2
    /\ player.last_collision[1] = "Blocked by slope"

----------------------------------------------------------------------------
(* The flags that shadow mode and lift (specification CommandSpec) *)

\* C34: in every reachable state the free_flight flag is true exactly when the mode is FREE_FLIGHT_MODE.
C34_FreeFlightFlagAgreesWithMode ==
    player.free_flight <=> (player.mode = FREE_FLIGHT_MODE)

\* C35: in every reachable state in which max_lift_active is true the lift force is MAX_LIFT.
C35_MaxLiftFlagAgreesWithLift ==
    player.max_lift_active => player.lift_force = MAX_LIFT

----------------------------------------------------------------------------
(* A jump and the fall that follows it (specification LandSpec) *)

MaxTicks == 4

\* the downward speed at which the fall is no longer followed: twice the jump impulse
MaxFallSpeed == 1200000

\* the frame times of a tick, in ms
TickTimes == {16, 100, 250}

\* one call of update_movement in NORMAL_MODE with the keys k held for d ms
LandTick(k, d) ==
    /\ \E r \in {update_movement(player, terrain, d, k, <<0, 0>>)} :
          player' = r.p /\ terrain' = r.t
    /\ call' = <<"update_movement", k, d>>
    /\ ncalls' = ncalls + 1
    /\ UNCHANGED <<ui_state, SMOOTH_TERRAIN, TERRAIN_DETAIL, SEED, world,
                   pc, keys, dt, mouse_rel, frames, ret>>

\* a tick on the ground with no key held
LandIdle == \E d \in TickTimes : player.on_ground /\ ncalls < MaxTicks /\ LandTick({}, d)

\* a tick on the ground with the jump key held: core.py:697-700
LandJump == \E d \in TickTimes : player.on_ground /\ ncalls < MaxTicks /\ LandTick({"SPACE"}, d)

\* a tick in the air with no key held
LandFall ==
    \E d \in TickTimes :
        ~player.on_ground /\ player.vel[2] > -MaxFallSpeed /\ LandTick({}, d)

LandNext == LandIdle \/ LandJump \/ LandFall

\* the main loop calls update_movement on every frame of the game state: core.py:1114-1138
LandSpec == Init /\ [][LandNext]_vars /\ WF_vars(LandFall)

\* the tick accepted a jump over flat terrain
JumpAccepted ==
    /\ world = "flat"
    /\ call[1] = "update_movement"
    /\ "SPACE" \in call[2]
    /\ ~player.on_ground
    /\ player.vel[2] = JUMP_FORCE

----------------------------------------------------------------------------
(* Frames outside the game state (specification Spec) *)

\* C37: every step of a frame that ends in the title or pause state leaves the whole player state unchanged, the cooldown included; the skipped update leaves the terrain unchanged and the frame's last step makes the active area the window around the unchanged position, with smoothing and block size as they were.
C37_FrameOutsideGameKeepsPlayer ==
    [][/\ ui_state' # "game" => player' = player
       /\ (pc = "state" /\ ui_state # "game") => terrain' = terrain
       /\ (pc = "terrain" /\ ui_state # "game")
            => /\ terrain'.generated_area =
                    SquareAround(Trunc(player.pos[1], CellXU(terrain)),
                                 Trunc(player.pos[3], CellXU(terrain)),
                                 Trunc(LOAD_RADIUS * 10, terrain.block_size))
               /\ terrain'.smooth = terrain.smooth
               /\ terrain'.block_size = terrain.block_size]_vars

\* the end of a paused frame, the cooldown of an earlier toggle still pending
C37_Witness ==
    /\ pc = "frame"
    /\ ui_state = "pause"
    /\ player.flight_timer > 0
    /\ terrain.generated_area =
          SquareAround(Trunc(player.pos[1], CellXU(terrain)),
                       Trunc(player.pos[3], CellXU(terrain)),
                       Trunc(LOAD_RADIUS * 10, terrain.block_size))

----------------------------------------------------------------------------
(* Reset and toggle in one tick (specification Spec) *)

\* C38: in a tick with the reset key held the reset step, which follows the toggle step, sets the mode to NORMAL_MODE and leaves the cooldown as the toggle step left it; from then to the end of the tick the mode is NORMAL_MODE, so the tick's movement is the Grounded one, whatever other keys are held and whatever the cooldown.
C38_ResetFollowsToggle ==
    /\ []((("F1" \in keys) /\ pc \in {"lift", "move", "type", "terrain"})
            => player.mode = NORMAL_MODE)
    /\ [][(pc = "reset" /\ "F1" \in keys)
            => /\ pc' = "lift"
               /\ player'.mode = NORMAL_MODE
               /\ player'.flight_timer = player.flight_timer]_vars

\* the end of a tick with reset and toggle held whose toggle was accepted: the cooldown was started in this tick and the mode is Grounded again
C38_Witness ==
    /\ pc = "terrain"
    /\ keys = {"F1", "TAB"}
    /\ player.flight_timer = flight_cooldown
    /\ player.mode = NORMAL_MODE

====
